---------------------------- MODULE Spec2Model ----------------------------
(***************************************************************************)
(* A model of the duplicate detection and merge subsystem of bookmeup      *)
(* (bookmarks/duplicates.py, bookmarks/utils.py, bookmarks/models.py).     *)
(*                                                                         *)
(* The bookmark store is a function from the ids of the stored bookmarks   *)
(* to their rows.  `db' is what is committed, `tx' is what the request     *)
(* running DuplicateManager.merge_bookmarks sees inside its                *)
(* @transaction.atomic block.                                              *)
(***************************************************************************)
EXTENDS Integers, Sequences, FiniteSets, TLC

VARIABLES
    db,              \* committed bookmark rows: id -> row
    tx,              \* rows as seen inside merge_bookmarks' atomic block
    pc,              \* position of the merge_bookmarks call
    primary_id,      \* argument of the call
    duplicate_ids,   \* argument of the call (the ids of the list)
    duplicates,      \* the evaluated queryset: a sequence of ids
    idx,             \* index of the running loop over duplicates
    primary,         \* the in-memory Bookmark instance fetched at line 267
    needs_rollback,  \* Django's mark on an atomic block an error happened in
    failed,          \* the duplicates whose cleanup step raised
    result,          \* "none" while running, "ok", or the ValueError's text
    pre,             \* db when the call began
    seen,            \* what a concurrent reader last read of the primary
    now,             \* the clock (timezone.now())
    user_id,         \* argument of the last detect_duplicates call
    groups,          \* what that call returned
    args,            \* arguments of the last call of a utility or prober function
    returned,        \* <<>> before that call returns, then <<its result>>
    health,          \* the LinkHealth rows, by the id of their bookmark
    job,             \* the stored BulkActionJob row
    worker           \* the BulkActionProcessor working on it

mergeLocals == <<primary_id, duplicate_ids, duplicates, idx, primary,
                 needs_rollback, failed, result, pre>>
detected == <<user_id, groups>>
applied == <<args, returned, health>>
bulk == <<job, worker>>
vars == <<db, tx, pc, mergeLocals, seen, now, detected, applied, bulk>>

---------------------------------------------------------------------------
(* Bounds of the model *)

MaxBookmarks == 3
MaxTime == 2

Ids == 1..MaxBookmarks
Users == {"u1", "u2"}
TagSets == {{}, {"t1"}, {"t2"}}

(* primary_id as None / "": `not primary_id' holds *)
NoId == 0

---------------------------------------------------------------------------
(* Helpers *)

Min(S) == CHOOSE x \in S : \A y \in S : x <= y

Orderings(S) ==
    {s \in [1..Cardinality(S) -> S] : \A i, j \in 1..Cardinality(S) : i # j => s[i] # s[j]}

Range(s) == {s[i] : i \in 1..Len(s)}

Chr(i) == <<"0", "1", "2", "3", "4", "5", "6", "7", "8", "9">>[i + 1]

(* The URL and title a bookmark of the merge scenarios carries. *)
UrlOf(i) == <<"h", "t", "t", "p", ":", "/", "/", "e", "/", Chr(i)>>
TitleOf(i) == <<"t", Chr(i)>>

(* A Bookmark row (models.py), with the relations merge reads held in it:  *)
(* tags (many-to-many), bookmark_notes and activities (reverse foreign     *)
(* keys with on_delete=CASCADE, so they go when the row goes).             *)
Bookmark(u, url, title, created, tags) ==
    [user |-> u, url |-> url, title |-> title, description |-> "", notes |-> "",
     favicon_url |-> "", screenshot_url |-> "",
     is_favorite |-> FALSE, is_archived |-> FALSE, is_read |-> FALSE,
     created_at |-> created, updated_at |-> created,
     tags |-> tags, bookmark_notes |-> <<>>, activities |-> <<>>]

NoBookmark == Bookmark("", <<>>, <<>>, 0, {})

(* a stored BulkActionJob; parameters holds primary_id only *)
BulkActionJob(user, action_type, bookmark_ids, parameters, status) ==
    [user |-> user, action_type |-> action_type, bookmark_ids |-> bookmark_ids,
     parameters |-> parameters, status |-> status]

(* no job is stored *)
NoJob == BulkActionJob("", "", {}, 0, "")

(* bulk_actions.py 18-21: a processor; at is its position in start_job,
   success the 'success' of the handler's result *)
BulkActionProcessor(at, success) == [at |-> at, success |-> success]

NoWorker == BulkActionProcessor("idle", FALSE)

---------------------------------------------------------------------------
(* DuplicateManager.merge_bookmarks: validation, lines 250-283 *)

ErrRequired == "Both primary_id and duplicate_ids are required"
ErrSelf == "Cannot merge a bookmark with itself"
ErrNotFound == "One or more bookmarks not found"
ErrNoDuplicates == "No duplicate bookmarks found to merge"
ErrUsers == "Cannot merge bookmarks from different users"
ErrMerging == "Error merging bookmarks: An error occurred in the current transaction."

(* the filter of line 260 left out *)
SelfFiltered_keeps(pid, dids) == dids

(* line 260: the primary's own id is taken out of duplicate_ids *)
SelfFiltered(pid, dids) == dids \ {pid}

(* line 271: Bookmark.objects.filter(id__in=duplicate_ids): the rows that exist *)
FoundDuplicates(store, pid, dids) == SelfFiltered(pid, dids) \cap DOMAIN store

(* the owner check of lines 279-283 left out *)
SameUser_unchecked(store, pid, found) == TRUE

(* lines 279-283: every duplicate has the primary's user_id *)
SameUser(store, pid, found) == \A d \in found : store[d].user = store[pid].user

(* Bookmark.Meta.ordering = ['-created_at']: the orders in which the queryset
   may yield `found'; rows with equal created_at come in any order. *)
QuerysetOrders(store, found) ==
    {s \in Orderings(found) :
        \A i, j \in 1..Cardinality(found) :
            i < j => store[s[i]].created_at >= store[s[j]].created_at}

(* The checks of lines 251-283 in order: "ok", or the text of the ValueError. *)
Validate(store, pid, dids) ==
    IF pid = NoId \/ dids = {} THEN ErrRequired
    ELSE IF SelfFiltered(pid, dids) = {} THEN ErrSelf
    ELSE IF pid \notin DOMAIN store THEN ErrNotFound
    ELSE IF FoundDuplicates(store, pid, dids) = {} THEN ErrNoDuplicates
    ELSE IF ~SameUser(store, pid, FoundDuplicates(store, pid, dids)) THEN ErrUsers
    ELSE "ok"

---------------------------------------------------------------------------
(* merge_bookmarks: combining, lines 285-353 *)

(* the duplicate's tags set on the primary instead of added to it *)
CombineTags_overwrites(existing, dupTags) == dupTags

(* lines 286-291: each tag of the duplicate not yet on the primary is added *)
CombineTags(existing, dupTags) == existing \cup dupTags

(* lines 294-299 and 328-336: a falsy value of the primary is replaced by the
   first truthy value of that field among the duplicates, in iteration order *)
(* the loop without its break and without the test of the primary's value:
   the last truthy value among the duplicates wins *)
FirstFilled_last(cur, empty, store, dups, f, i) ==
    IF \E k \in 1..Len(dups) : store[dups[k]][f] # empty
    THEN store[dups[CHOOSE k \in 1..Len(dups) :
                        /\ store[dups[k]][f] # empty
                        /\ \A l \in 1..Len(dups) :
                               store[dups[l]][f] # empty => l <= k]][f]
    ELSE cur

RECURSIVE FirstFilled(_, _, _, _, _, _)
FirstFilled(cur, empty, store, dups, f, i) ==
    IF cur # empty \/ i > Len(dups) THEN cur
    ELSE IF store[dups[i]][f] # empty THEN store[dups[i]][f]
    ELSE FirstFilled(cur, empty, store, dups, f, i + 1)

(* lines 323-325: the loop that keeps the earliest created_at *)
RECURSIVE KeepEarliest(_, _, _, _)
KeepEarliest(created, store, dups, i) ==
    IF i > Len(dups) THEN created
    ELSE KeepEarliest(IF store[dups[i]].created_at < created
                      THEN store[dups[i]].created_at ELSE created,
                      store, dups, i + 1)

(* lines 339-350: a flag of the primary becomes true if a duplicate has it *)
(* the flag taken from the first duplicate only *)
AnyFlag_first(cur, store, dups, f) == cur \/ store[dups[1]][f]

AnyFlag(cur, store, dups, f) == cur \/ \E i \in 1..Len(dups) : store[dups[i]][f]

(* BookmarkNote.Meta.ordering = ['-updated_at']: the index of the first
   active note of a bookmark, 0 when it has none *)
FirstActive(notes) ==
    LET act == {k \in 1..Len(notes) : notes[k].is_active}
    IN IF act = {} THEN 0
       ELSE CHOOSE k \in act :
                \A l \in act : notes[k].updated_at > notes[l].updated_at
                               \/ (notes[k].updated_at = notes[l].updated_at /\ k <= l)

(* lines 309-312 left out: the primary's note is not made inactive *)
MergeNote_keeps(pnotes, note, t) ==
    IF FirstActive(pnotes) = 0
       \/ note.updated_at > pnotes[FirstActive(pnotes)].updated_at
    THEN Append(pnotes,
                [user |-> note.user, content |-> note.content,
                 created_at |-> t, updated_at |-> t, is_active |-> TRUE])
    ELSE pnotes

(* lines 305-320: one active note of a duplicate against the primary's *)
MergeNote(pnotes, note, t) ==
    LET k == FirstActive(pnotes)
    IN IF k = 0 \/ note.updated_at > pnotes[k].updated_at
       THEN Append(IF k = 0 THEN pnotes
                   ELSE [pnotes EXCEPT ![k].is_active = FALSE, ![k].updated_at = t],
                   [user |-> note.user, content |-> note.content,
                    created_at |-> t, updated_at |-> t, is_active |-> TRUE])
       ELSE pnotes

(* line 303: the active notes of one duplicate, newest first *)
RECURSIVE MergeNotesOf(_, _, _, _)
MergeNotesOf(pnotes, dnotes, left, t) ==
    IF left = {} THEN pnotes
    ELSE LET k == CHOOSE k \in left :
                     \A l \in left : dnotes[k].updated_at > dnotes[l].updated_at
                                     \/ (dnotes[k].updated_at = dnotes[l].updated_at /\ k <= l)
         IN MergeNotesOf(MergeNote(pnotes, dnotes[k], t), dnotes, left \ {k}, t)

(* lines 302-320: the loop over the duplicates *)
RECURSIVE CombineNotes(_, _, _, _, _)
CombineNotes(pnotes, store, dups, i, t) ==
    IF i > Len(dups) THEN pnotes
    ELSE LET dn == store[dups[i]].bookmark_notes
         IN CombineNotes(
                MergeNotesOf(pnotes, dn, {k \in 1..Len(dn) : dn[k].is_active}, t),
                store, dups, i + 1, t)

(* auto_now_add taking the clock on every save *)
PreSaveCreatedAt_always(value, add, t) == t

(* models.py 107: DateTimeField(auto_now_add=True).pre_save: the clock on an
   insert, the instance's own value on an update *)
PreSaveCreatedAt(value, add, t) == IF add THEN t ELSE value

(* line 353, models.py 138-144: primary.save() writes the instance's concrete
   fields over the row; updated_at is auto_now *)
SaveRow(row, inst, t) ==
    [row EXCEPT !.title = inst.title, !.url = inst.url,
                !.description = inst.description, !.notes = inst.notes,
                !.favicon_url = inst.favicon_url,
                !.screenshot_url = inst.screenshot_url,
                !.is_favorite = inst.is_favorite, !.is_archived = inst.is_archived,
                !.is_read = inst.is_read,
                !.created_at = PreSaveCreatedAt(inst.created_at, FALSE, t),
                !.updated_at = t]

(* lines 294-350: the in-memory instance after the loops over the duplicates *)
CombineFields(inst, store, dups) ==
    [inst EXCEPT
        !.notes = FirstFilled(inst.notes, "", store, dups, "notes", 1),
        !.created_at = KeepEarliest(inst.created_at, store, dups, 1),
        !.title = FirstFilled(inst.title, <<>>, store, dups, "title", 1),
        !.description = FirstFilled(inst.description, "", store, dups, "description", 1),
        !.favicon_url = FirstFilled(inst.favicon_url, "", store, dups, "favicon_url", 1),
        !.screenshot_url =
            FirstFilled(inst.screenshot_url, "", store, dups, "screenshot_url", 1),
        !.is_favorite = AnyFlag(inst.is_favorite, store, dups, "is_favorite"),
        !.is_read = AnyFlag(inst.is_read, store, dups, "is_read")]

---------------------------------------------------------------------------
(* merge_bookmarks: the cleanup loop, lines 363-388 *)

(* no activity entry written *)
LogMerged_skipped(store, pid, inst, d) == store

(* lines 373-382: the 'merged' activity entry on the primary *)
LogMerged(store, pid, inst, d) ==
    [store EXCEPT ![pid].activities =
        Append(@, [activity_type |-> "merged", user |-> inst.user,
                   merged_from |-> d, merged_url |-> store[d].url,
                   merged_title |-> store[d].title])]

(* the duplicate's row left in place *)
DeleteBookmark_keeps(store, d) == store

(* line 385: duplicate.delete(); the row's relations cascade with it *)
DeleteBookmark(store, d) == [i \in DOMAIN store \ {d} |-> store[i]]

(* no atomic block: every write is committed as it is made *)
Visible_uncommitted == tx

(* line 238: what another request reads while the atomic block is open *)
Visible == db

---------------------------------------------------------------------------
(* Strings are sequences of one-character strings. *)

UpperCase ==
    <<"A", "B", "C", "D", "E", "F", "G", "H", "I", "J", "K", "L", "M",
      "N", "O", "P", "Q", "R", "S", "T", "U", "V", "W", "X", "Y", "Z">>

LowerCase ==
    <<"a", "b", "c", "d", "e", "f", "g", "h", "i", "j", "k", "l", "m",
      "n", "o", "p", "q", "r", "s", "t", "u", "v", "w", "x", "y", "z">>

(* str.lower() of one character *)
Lower(c) ==
    IF \E i \in 1..Len(UpperCase) : UpperCase[i] = c
    THEN LowerCase[CHOOSE i \in 1..Len(UpperCase) : UpperCase[i] = c]
    ELSE c

LowerStr(s) == [i \in 1..Len(s) |-> Lower(s[i])]

StartsWith(s, prefix) ==
    Len(s) >= Len(prefix) /\ SubSeq(s, 1, Len(prefix)) = prefix

(* the index of the first element of s in the set C, 0 when there is none *)
Find(s, C) ==
    IF \E i \in 1..Len(s) : s[i] \in C
    THEN Min({i \in 1..Len(s) : s[i] \in C})
    ELSE 0

Tail_(s, i) == SubSeq(s, i, Len(s))

(* str.split(sep): the pieces of s between the occurrences of sep *)
RECURSIVE Split(_, _)
Split(s, sep) ==
    IF \A i \in 1..Len(s) : s[i] # sep THEN <<s>>
    ELSE <<SubSeq(s, 1, Min({i \in 1..Len(s) : s[i] = sep}) - 1)>>
         \o Split(SubSeq(s, Min({i \in 1..Len(s) : s[i] = sep}) + 1, Len(s)), sep)

(* sep.join(parts) *)
RECURSIVE Join(_, _)
Join(parts, sep) ==
    IF Len(parts) = 0 THEN <<>>
    ELSE IF Len(parts) = 1 THEN parts[1]
    ELSE parts[1] \o sep \o Join(Tail(parts), sep)

---------------------------------------------------------------------------
(* urllib.parse, as far as the program uses it.  A parsed URL is a record
   [ok, scheme, netloc, path, query, fragment]; ok = FALSE stands for the
   ValueError that urlsplit raises on an unbalanced bracket in the netloc.
   The URLs of the model hold no ';', so urlparse finds no params, and
   neither start nor end with a blank. *)

Letters == Range(UpperCase) \cup Range(LowerCase)

Digits == {"0", "1", "2", "3", "4", "5", "6", "7", "8", "9"}

SchemeChars == Letters \cup Digits \cup {"+", "-", "."}

(* quote_plus writes these characters as %XX and a blank as +, and leaves
   letters, digits and _ . - ~ alone *)
Escape(c) ==
    CASE c = "/" -> <<"%", "2", "F">>
      [] c = ":" -> <<"%", "3", "A">>
      [] c = "?" -> <<"%", "3", "F">>
      [] c = "=" -> <<"%", "3", "D">>
      [] c = "[" -> <<"%", "5", "B">>
      [] c = "]" -> <<"%", "5", "D">>
      [] c = "%" -> <<"%", "2", "5">>
      [] c = "+" -> <<"%", "2", "B">>
      [] c = " " -> <<"+">>
      [] OTHER -> <<c>>

Escaped == {"/", ":", "?", "=", "[", "]", "%", "+"}

RECURSIVE quote_plus(_)
quote_plus(s) ==
    IF s = <<>> THEN <<>> ELSE Escape(Head(s)) \o quote_plus(Tail(s))

(* unquote of parse_qsl: '+' is a space, %XX is the character it encodes,
   and a '%' that starts no escape stays *)
RECURSIVE unquote_plus(_)
unquote_plus(s) ==
    IF s = <<>> THEN <<>>
    ELSE IF Head(s) = "+" THEN <<" ">> \o unquote_plus(Tail(s))
    ELSE IF Head(s) = "%" /\ Len(s) >= 3
            /\ \E c \in Escaped : Escape(c) = SubSeq(s, 1, 3)
    THEN LET c == CHOOSE c \in Escaped : Escape(c) = SubSeq(s, 1, 3)
         IN <<c>> \o unquote_plus(Tail_(s, 4))
    ELSE <<Head(s)>> \o unquote_plus(Tail(s))

(* the part of s before, after, and from the first element in the set C *)
Before(s, C) == IF Find(s, C) = 0 THEN s ELSE SubSeq(s, 1, Find(s, C) - 1)

After(s, C) == IF Find(s, C) = 0 THEN <<>> ELSE Tail_(s, Find(s, C) + 1)

From(s, C) == IF Find(s, C) = 0 THEN <<>> ELSE Tail_(s, Find(s, C))

HasScheme(url) ==
    /\ Find(url, {":"}) > 1
    /\ url[1] \in Letters
    /\ \A i \in 1..(Find(url, {":"}) - 1) : url[i] \in SchemeChars

SchemeOf(url) ==
    IF HasScheme(url) THEN LowerStr(Before(url, {":"})) ELSE <<>>

AfterScheme(url) == IF HasScheme(url) THEN After(url, {":"}) ELSE url

HasNetloc(rest) == StartsWith(rest, <<"/", "/">>)

NetlocOf(rest) ==
    IF HasNetloc(rest) THEN Before(Tail_(rest, 3), {"/", "?", "#"}) ELSE <<>>

AfterNetloc(rest) ==
    IF HasNetloc(rest) THEN From(Tail_(rest, 3), {"/", "?", "#"}) ELSE rest

ParseRest(scheme, netloc, rest) ==
    [ok |-> (Find(netloc, {"["}) = 0) = (Find(netloc, {"]"}) = 0),
     scheme |-> scheme,
     netloc |-> netloc,
     path |-> Before(Before(rest, {"#"}), {"?"}),
     query |-> After(Before(rest, {"#"}), {"?"}),
     fragment |-> After(rest, {"#"})]

urlparse(url) ==
    ParseRest(SchemeOf(url), NetlocOf(AfterScheme(url)),
              AfterNetloc(AfterScheme(url)))

(* parse_qs: a sequence of [key, values] in the order the keys first appear;
   a field without '=' or with an empty value is dropped *)
Holds(dict, k) == \E i \in 1..Len(dict) : dict[i].key = k

AddValue(dict, k, v) ==
    IF Holds(dict, k)
    THEN [i \in 1..Len(dict) |->
             IF dict[i].key = k
             THEN [key |-> k, values |-> Append(dict[i].values, v)]
             ELSE dict[i]]
    ELSE Append(dict, [key |-> k, values |-> <<v>>])

AddField(dict, field) ==
    IF Find(field, {"="}) = 0 \/ After(field, {"="}) = <<>>
    THEN dict
    ELSE AddValue(dict, unquote_plus(Before(field, {"="})),
                  unquote_plus(After(field, {"="})))

RECURSIVE AddFields(_, _)
AddFields(dict, fields) ==
    IF fields = <<>> THEN dict
    ELSE AddFields(AddField(dict, Head(fields)), Tail(fields))

parse_qs(query) ==
    IF query = <<>> THEN <<>> ELSE AddFields(<<>>, Split(query, "&"))

(* urlencode(dict, doseq=True) *)
RECURSIVE EncodeValues(_, _)
EncodeValues(k, values) ==
    IF values = <<>> THEN <<>>
    ELSE <<quote_plus(k) \o <<"=">> \o quote_plus(Head(values))>>
         \o EncodeValues(k, Tail(values))

RECURSIVE EncodeItems(_)
EncodeItems(dict) ==
    IF dict = <<>> THEN <<>>
    ELSE EncodeValues(Head(dict).key, Head(dict).values)
         \o EncodeItems(Tail(dict))

urlencode(dict) == Join(EncodeItems(dict), <<"&">>)

(* urlunparse of a scheme, netloc, path, query and fragment *)
urlunparse(scheme, netloc, path, query, fragment) ==
    LET usesNetloc == scheme \in {<<"h", "t", "t", "p">>,
                                  <<"h", "t", "t", "p", "s">>}
        url1 == IF netloc # <<>>
                   \/ (usesNetloc /\ ~StartsWith(path, <<"/", "/">>))
                THEN <<"/", "/">> \o netloc
                     \o (IF path # <<>> /\ Head(path) # "/"
                         THEN <<"/">> ELSE <<>>) \o path
                ELSE path
        url2 == IF scheme # <<>> THEN scheme \o <<":">> \o url1 ELSE url1
        url3 == IF query # <<>> THEN url2 \o <<"?">> \o query ELSE url2
    IN IF fragment # <<>> THEN url3 \o <<"#">> \o fragment ELSE url3

---------------------------------------------------------------------------
(* URL normalisation and title similarity *)

HttpPrefix == <<"h", "t", "t", "p", ":", "/", "/">>

HttpsPrefix == <<"h", "t", "t", "p", "s", ":", "/", "/">>

WwwPrefix == <<"w", "w", "w", ".">>

DupParam == <<"_", "d", "u", "p">>

tracking_params ==
    {<<"u", "t", "m", "_", "s", "o", "u", "r", "c", "e">>,
     <<"u", "t", "m", "_", "m", "e", "d", "i", "u", "m">>,
     <<"u", "t", "m", "_", "c", "a", "m", "p", "a", "i", "g", "n">>,
     <<"u", "t", "m", "_", "t", "e", "r", "m">>,
     <<"u", "t", "m", "_", "c", "o", "n", "t", "e", "n", "t">>,
     <<"f", "b", "c", "l", "i", "d">>,
     <<"g", "c", "l", "i", "d">>,
     <<"o", "c", "i", "d">>,
     <<"d", "c", "l", "i", "d">>,
     <<"r", "e", "f">>,
     <<"s", "o", "u", "r", "c", "e">>,
     <<"r", "e", "f", "e", "r", "r", "e", "r">>,
     <<"r", "e", "f", "e", "r", "r", "a", "l">>,
     <<"_", "g", "a">>,
     <<"_", "g", "l">>,
     <<"m", "c", "_", "c", "i", "d">>,
     <<"m", "c", "_", "e", "i", "d">>,
     <<"s", "e", "s", "s", "i", "o", "n", "_", "i", "d">>,
     <<"t", "r", "a", "c", "k", "i", "n", "g", "_", "i", "d">>,
     <<"c", "l", "i", "c", "k", "_", "i", "d">>,
     <<"_", "d", "u", "p">>}

(* while '//' in path: path = path.replace('//', '/') *)
RECURSIVE CollapseSlashes(_)
CollapseSlashes(path) ==
    IF Len(path) < 2 THEN path
    ELSE IF path[1] = "/" /\ path[2] = "/" THEN CollapseSlashes(Tail(path))
    ELSE <<Head(path)>> \o CollapseSlashes(Tail(path))

StripTrailingSlash(path) ==
    IF Len(path) > 1 /\ path[Len(path)] = "/"
    THEN SubSeq(path, 1, Len(path) - 1)
    ELSE path

StripWww(domain) ==
    IF StartsWith(domain, WwwPrefix) THEN Tail_(domain, 5) ELSE domain

NotTracking(item) == LowerStr(item.key) \notin tracking_params

(* lines 40-41 *)
WithScheme(given) ==
    IF StartsWith(given, HttpPrefix) \/ StartsWith(given, HttpsPrefix)
    THEN given
    ELSE HttpsPrefix \o given

Prefixed(mark, s) == IF s = <<>> THEN <<>> ELSE <<mark>> \o s

(* lines 46-100 *)
Rebuild(parsed) ==
    parsed.scheme \o <<":", "/", "/">>
        \o StripWww(LowerStr(parsed.netloc))
        \o StripTrailingSlash(CollapseSlashes(parsed.path))
        \o Prefixed("?", urlencode(SelectSeq(parse_qs(parsed.query), NotTracking)))
        \o Prefixed("#", parsed.fragment)

(* lines 43-104: what the try block returns, and what the except clause *)
NormalizeParsed(url, parsed) == IF parsed.ok THEN Rebuild(parsed) ELSE url

normalize_url(given) ==
    NormalizeParsed(WithScheme(given), urlparse(WithScheme(given)))

(* str.split() and ' '.join: runs of blanks become one blank, the ends are
   trimmed *)
NonEmpty(w) == w # <<>>

SqueezeBlanks(text) == Join(SelectSeq(Split(text, " "), NonEmpty), <<" ">>)

(* a get_trigrams that loses the last trigram of the text *)
get_trigrams_short(text) ==
    IF Len(text) < 4 THEN {}
    ELSE {SubSeq(text, i, i + 2) : i \in 1..(Len(text) - 3)}

get_trigrams(text) ==
    IF Len(text) < 3 THEN {}
    ELSE {SubSeq(text, i, i + 2) : i \in 1..(Len(text) - 2)}

(* The similarity is the fraction num / den of two naturals; 0 / 1 is 0.0. *)
calculate_text_similarity(text1, text2) ==
    LET trigrams1 == get_trigrams(SqueezeBlanks(LowerStr(text1)))
        trigrams2 == get_trigrams(SqueezeBlanks(LowerStr(text2)))
    IN IF text1 = <<>> \/ text2 = <<>> \/ trigrams1 = {} \/ trigrams2 = {}
       THEN [num |-> 0, den |-> 1]
       ELSE [num |-> Cardinality(trigrams1 \cap trigrams2),
             den |-> Cardinality(trigrams1 \cup trigrams2)]

(* similarity_threshold = 0.8 = ThresholdNum / ThresholdDen *)
ThresholdNum == 4

ThresholdDen == 5

AtLeastThreshold(similarity) ==
    similarity.num * ThresholdDen >= ThresholdNum * similarity.den

---------------------------------------------------------------------------
(* DuplicateManager.detect_duplicates.  A group is a record whose field
   bookmarks is the list of its members' ids, in the list's order. *)

(* the first occurrences of the elements of s, in order *)
RECURSIVE Distinct(_)
Distinct(s) ==
    IF s = <<>> THEN <<>>
    ELSE <<Head(s)>> \o Distinct(SelectSeq(Tail(s), LAMBDA x : x # Head(s)))

(* filter(user_id=user_id, is_archived=False) *)
Candidates(store, owner) ==
    {b \in DOMAIN store : store[b].user = owner /\ ~store[b].is_archived}

(* line 82: '_dup' in query_params *)
is_duplicate_url(url) ==
    LET query_params == parse_qs(urlparse(url).query)
    IN \E i \in 1..Len(query_params) : query_params[i].key = DupParam

(* lines 85-96: the URL without its _dup parameter, normalized *)
CleanNormalized(url) ==
    LET parsed_url == urlparse(url)
        clean_params == SelectSeq(parse_qs(parsed_url.query),
                                  LAMBDA item : item.key # DupParam)
    IN normalize_url(urlunparse(parsed_url.scheme, parsed_url.netloc,
                                parsed_url.path, urlencode(clean_params),
                                parsed_url.fragment))

UrlGroup(url, members) ==
    [normalized_url |-> url, bookmarks |-> members, type |-> "url_duplicate"]

(* the bookmarks whose normalized URL is url, in the queryset's order *)
WithUrl(store, bookmarks, url) ==
    SelectSeq(bookmarks, LAMBDA b : normalize_url(store[b].url) = url)

(* lines 104-113: the buckets of normalized_urls that hold several bookmarks *)
StandardGroups(store, bookmarks) ==
    LET urls == Distinct([i \in 1..Len(bookmarks) |->
                             normalize_url(store[bookmarks[i]].url)])
        buckets == [i \in 1..Len(urls) |->
                       UrlGroup(urls[i], WithUrl(store, bookmarks, urls[i]))]
    IN SelectSeq(buckets, LAMBDA g : Len(g.bookmarks) > 1)

(* lines 98-101: the keys of base_url_mapping, in insertion order *)
BaseUrls(store, bookmarks) ==
    LET marked == SelectSeq(bookmarks, LAMBDA b : is_duplicate_url(store[b].url))
    IN Distinct([i \in 1..Len(marked) |-> CleanNormalized(store[marked[i]].url)])

(* lines 119-122: the bookmarks that carry the marker and have this base URL *)
WithBaseUrl(store, bookmarks, base_url) ==
    SelectSeq(bookmarks,
              LAMBDA b : /\ is_duplicate_url(store[b].url)
                         /\ CleanNormalized(store[b].url) = base_url)

(* line 127-130: some group found so far holds all of all_related *)
Covered(duplicates_, all_related) ==
    \E i \in 1..Len(duplicates_) :
        Range(all_related) \subseteq Range(duplicates_[i].bookmarks)

(* lines 125-135 *)
AddGroup(duplicates_, base_url, original_bookmarks, dup_bookmarks) ==
    IF /\ original_bookmarks # <<>>
       /\ Len(original_bookmarks \o dup_bookmarks) > 1
       /\ ~Covered(duplicates_, original_bookmarks \o dup_bookmarks)
    THEN Append(duplicates_,
                UrlGroup(base_url, original_bookmarks \o dup_bookmarks))
    ELSE duplicates_

(* lines 116-135: one pass of the loop over base_url_mapping per base URL *)
RECURSIVE AddRelated(_, _, _, _)
AddRelated(duplicates_, base_urls, store, bookmarks) ==
    IF base_urls = <<>> THEN duplicates_
    ELSE AddRelated(AddGroup(duplicates_, Head(base_urls),
                             WithUrl(store, bookmarks, Head(base_urls)),
                             WithBaseUrl(store, bookmarks, Head(base_urls))),
                    Tail(base_urls), store, bookmarks)

detect_url_duplicates(store, bookmarks) ==
    AddRelated(StandardGroups(store, bookmarks), BaseUrls(store, bookmarks),
               store, bookmarks)

(* line 148 *)
TitleScanLimit == 1000

TitleGroup(members) == [title_similarity |-> TRUE, bookmarks |-> members]

(* lines 168-169 *)
Similar(store, b1, b2) ==
    AtLeastThreshold(calculate_text_similarity(store[b1].title, store[b2].title))

(* lines 163-171: bookmark1 and the later bookmarks that join its group *)
GroupOf(bookmark1, later, processed_ids, store) ==
    <<bookmark1>>
        \o SelectSeq(later, LAMBDA bookmark2 :
                                /\ bookmark2 \notin processed_ids
                                /\ Similar(store, bookmark1, bookmark2))

(* lines 173-174 *)
WithGroup(duplicate_groups, group) ==
    IF Len(group) > 1
    THEN Append(duplicate_groups, TitleGroup(group))
    ELSE duplicate_groups

(* lines 156-174: one pass of the outer loop per element of bookmark_list *)
RECURSIVE Pairwise(_, _, _, _)
Pairwise(duplicate_groups, processed_ids, bookmark_list, store) ==
    IF bookmark_list = <<>> THEN duplicate_groups
    ELSE IF Head(bookmark_list) \in processed_ids
    THEN Pairwise(duplicate_groups, processed_ids, Tail(bookmark_list), store)
    ELSE Pairwise(WithGroup(duplicate_groups,
                            GroupOf(Head(bookmark_list), Tail(bookmark_list),
                                    processed_ids, store)),
                  processed_ids
                      \cup Range(GroupOf(Head(bookmark_list), Tail(bookmark_list),
                                         processed_ids, store)),
                  Tail(bookmark_list), store)

(* lines 188-192: the trigrams a title is indexed under *)
IndexTrigrams(title) ==
    {SubSeq(LowerStr(title), i, i + 2) : i \in 1..(Len(title) - 2)}

(* lines 195-202: the pairs of bookmarks that share a trigram *)
candidate_pairs(store, bookmarks) ==
    {pair \in Range(bookmarks) \X Range(bookmarks) :
        /\ pair[1] < pair[2]
        /\ IndexTrigrams(store[pair[1]].title)
               \cap IndexTrigrams(store[pair[2]].title) # {}}

RECURSIVE Flatten(_)
Flatten(pairs) ==
    IF pairs = <<>> THEN <<>> ELSE Head(pairs) \o Flatten(Tail(pairs))

(* lines 208-216: the candidate pairs that are similar enough *)
SimilarPairs(store, pairs) ==
    SelectSeq(pairs, LAMBDA pair : Similar(store, pair[1], pair[2]))

(* lines 219-234: a group per first id, its members without repetition *)
GroupsOfPairs(similar, group_ids) ==
    [i \in 1..Len(group_ids) |->
        TitleGroup(Distinct(Flatten(
            SelectSeq(similar, LAMBDA pair : pair[1] = group_ids[i]))))]

FirstIds(similar) == Distinct([i \in 1..Len(similar) |-> similar[i][1]])

(* lines 204-236; pairs is candidate_pairs in the order the set is iterated *)
detect_title_duplicates_efficient(store, pairs) ==
    GroupsOfPairs(SimilarPairs(store, pairs), FirstIds(SimilarPairs(store, pairs)))

(* lines 142-145: the candidates with a title *)
Titled(store, bookmarks) == SelectSeq(bookmarks, LAMBDA b : store[b].title # <<>>)

detect_title_duplicates(store, bookmarks, pairs) ==
    IF Len(Titled(store, bookmarks)) > TitleScanLimit
    THEN detect_title_duplicates_efficient(store, pairs)
    ELSE Pairwise(<<>>, {}, Titled(store, bookmarks), store)

(* the orders in which the set candidate_pairs may be iterated; the set is
   not built when the collection is small *)
PairOrders(store, bookmarks) ==
    IF Len(Titled(store, bookmarks)) > TitleScanLimit
    THEN Orderings(candidate_pairs(store, Titled(store, bookmarks)))
    ELSE {<<>>}

(* lines 40-44 *)
MemberIds(url_duplicates) ==
    UNION {Range(url_duplicates[i].bookmarks) : i \in 1..Len(url_duplicates)}

(* the filter of lines 48-50 left out *)
Filtered_none(title_duplicates, url_duplicate_ids) == title_duplicates

(* lines 46-53 *)
Filtered(title_duplicates, url_duplicate_ids) ==
    SelectSeq([i \in 1..Len(title_duplicates) |->
                  TitleGroup(SelectSeq(title_duplicates[i].bookmarks,
                                       LAMBDA b : b \notin url_duplicate_ids))],
              LAMBDA g : Len(g.bookmarks) > 1)

(* lines 33, 55 *)
AllDuplicates(url_duplicates, title_duplicates) ==
    url_duplicates \o Filtered(title_duplicates, MemberIds(url_duplicates))

(* lines 29-57 *)
detect_duplicates(store, bookmarks, pairs) ==
    AllDuplicates(detect_url_duplicates(store, bookmarks),
                  detect_title_duplicates(store, bookmarks, pairs))

---------------------------------------------------------------------------
(* The states the store starts in *)

(* Any set of bookmarks of any owners, created in id order. *)
InitOwners ==
    \E S \in SUBSET Ids :
        \E uf \in [S -> Users] :
            db = [i \in S |-> Bookmark(uf[i], UrlOf(i), TitleOf(i), i, {"t1"})]

(* All bookmarks of one owner with any tags, created in id order. *)
InitTags ==
    \E tf \in [Ids -> TagSets] :
        db = [i \in Ids |-> Bookmark("u1", UrlOf(i), TitleOf(i), i, tf[i])]

(* All bookmarks of one owner, created at any times (equal ones included). *)
InitTimes ==
    \E cf \in [Ids -> 1..MaxTime] :
        db = [i \in Ids |-> Bookmark("u1", UrlOf(i), TitleOf(i), cf[i], {"t1"})]

Idle ==
    /\ pc = "idle"
    /\ primary_id = NoId
    /\ duplicate_ids = {}
    /\ duplicates = <<>>
    /\ idx = 1
    /\ primary = NoBookmark
    /\ needs_rollback = FALSE
    /\ failed = {}
    /\ result = "none"
    /\ pre = <<>>
    /\ seen = {}
    /\ user_id = ""
    /\ groups = <<>>

Init ==
    /\ InitOwners \/ InitTags \/ InitTimes
    /\ tx = db
    /\ now = MaxBookmarks + MaxTime
    /\ Idle
    /\ args = <<>>
    /\ returned = <<>>
    /\ health = <<>>
    /\ job = NoJob
    /\ worker = NoWorker

---------------------------------------------------------------------------
(* merge_bookmarks(primary_id, duplicate_ids), lines 238-412 *)

(* lines 250-283: the call begins; a failed check raises ValueError and the
   atomic block rolls back (nothing was written) *)
MergeBegin(pid, dids) ==
    /\ pc = "idle"
    /\ primary_id' = pid
    /\ duplicate_ids' = dids
    /\ pre' = db
    /\ tx' = db
    /\ idx' = 1
    /\ IF Validate(db, pid, dids) = "ok"
       THEN /\ pc' = "tags"
            /\ result' = "none"
            /\ primary' = db[pid]
            /\ duplicates' \in QuerysetOrders(db, FoundDuplicates(db, pid, dids))
       ELSE /\ pc' = "done"
            /\ result' = Validate(db, pid, dids)
            /\ UNCHANGED <<primary, duplicates>>
    /\ UNCHANGED <<db, needs_rollback, failed, seen, now, detected, applied, bulk>>

(* lines 287-291: the tags of one duplicate are added to the primary *)
MergeTags ==
    /\ pc = "tags"
    /\ tx' = [tx EXCEPT ![primary_id].tags = CombineTags(@, tx[duplicates[idx]].tags)]
    /\ IF idx = Len(duplicates)
       THEN pc' = "notes" /\ idx' = 1
       ELSE pc' = "tags" /\ idx' = idx + 1
    /\ UNCHANGED <<db, primary_id, duplicate_ids, duplicates, primary,
                   needs_rollback, failed, result, pre, seen, now, detected, applied, bulk>>

(* lines 302-320: the active notes of the duplicates against the primary's *)
MergeNotes ==
    /\ pc = "notes"
    /\ tx' = [tx EXCEPT ![primary_id].bookmark_notes =
                            CombineNotes(@, tx, duplicates, 1, now)]
    /\ pc' = "save"
    /\ UNCHANGED <<db, primary_id, duplicate_ids, duplicates, idx, primary,
                   needs_rollback, failed, result, pre, seen, now, detected, applied, bulk>>

(* lines 294-299 and 322-353: the instance's fields are combined, then saved *)
MergeSave ==
    /\ pc = "save"
    /\ primary' = CombineFields(primary, tx, duplicates)
    /\ tx' = [tx EXCEPT ![primary_id] = SaveRow(@, primary', now)]
    /\ pc' = "cleanup"
    /\ idx' = 1
    /\ UNCHANGED <<db, primary_id, duplicate_ids, duplicates,
                   needs_rollback, failed, result, pre, seen, now, detected, applied, bulk>>

(* lines 363-388: one duplicate is logged and deleted.  Both statements are
   writes: BookmarkActivity.objects.create and duplicate.delete().  A write
   that raises inside an atomic block marks the block for rollback (Django's
   Model.save_base and Collector.delete), and the `except Exception' of line
   386 swallows the error without a savepoint: every later query of the block
   then raises TransactionManagementError, which line 386 swallows as well. *)
MergeCleanup(outcome) ==
    /\ pc = "cleanup"
    /\ LET d == duplicates[idx]
       IN IF needs_rollback
          THEN /\ outcome = "log_fails"
               /\ failed' = failed \cup {d}
               /\ UNCHANGED <<tx, needs_rollback>>
          ELSE CASE outcome = "ok" ->
                        /\ tx' = DeleteBookmark(LogMerged(tx, primary_id, primary, d), d)
                        /\ UNCHANGED <<failed, needs_rollback>>
                 [] outcome = "log_fails" ->
                        /\ needs_rollback' = TRUE
                        /\ failed' = failed \cup {d}
                        /\ UNCHANGED tx
                 [] outcome = "delete_fails" ->
                        /\ tx' = LogMerged(tx, primary_id, primary, d)
                        /\ needs_rollback' = TRUE
                        /\ failed' = failed \cup {d}
    /\ IF idx = Len(duplicates)
       THEN pc' = "return" /\ idx' = 1
       ELSE pc' = "cleanup" /\ idx' = idx + 1
    /\ UNCHANGED <<db, primary_id, duplicate_ids, duplicates, primary,
                   result, pre, seen, now, detected, applied, bulk>>

(* lines 394-412: primary.refresh_from_db() and the return.  In a block marked
   for rollback the query raises; `except Exception' (line 404) turns that
   into ValueError and the atomic block rolls everything back.  Otherwise
   the block commits. *)
MergeReturn ==
    /\ pc = "return"
    /\ IF needs_rollback
       THEN result' = ErrMerging /\ UNCHANGED <<db, now>>
       ELSE IF primary_id \notin DOMAIN tx
       THEN result' = ErrNotFound /\ UNCHANGED <<db, now>>
       ELSE result' = "ok" /\ db' = tx /\ now' = now + 1
    /\ pc' = "done"
    /\ UNCHANGED <<tx, primary_id, duplicate_ids, duplicates, idx, primary,
                   needs_rollback, failed, pre, seen, detected, applied, bulk>>

(* the caller has the result; the next request may come *)
MergeDone ==
    /\ pc = "done"
    /\ pc' = "idle"
    /\ primary_id' = NoId
    /\ duplicate_ids' = {}
    /\ duplicates' = <<>>
    /\ idx' = 1
    /\ primary' = NoBookmark
    /\ needs_rollback' = FALSE
    /\ failed' = {}
    /\ result' = "none"
    /\ pre' = <<>>
    /\ seen' = {}
    /\ tx' = db
    /\ UNCHANGED <<db, now, detected, applied, bulk>>

(* another request reads the primary while the merge runs *)
ReadPrimary ==
    /\ pc \in {"tags", "notes", "save", "cleanup", "return", "done"}
    /\ primary_id \in DOMAIN Visible
    /\ seen' = {Visible[primary_id]}
    /\ UNCHANGED <<db, tx, pc, mergeLocals, now, detected, applied, bulk>>

Next ==
    \/ \E pid \in Ids \cup {NoId}, dids \in SUBSET Ids : MergeBegin(pid, dids)
    \/ MergeTags
    \/ MergeNotes
    \/ MergeSave
    \/ \E outcome \in {"ok", "log_fails", "delete_fails"} : MergeCleanup(outcome)
    \/ MergeReturn
    \/ MergeDone

(* requests that merge, one after the other *)
Spec == Init /\ [][Next]_vars

(* merge_bookmarks over bookmarks whose text fields and flags differ *)

FieldValue(i) == <<"v1", "v2", "v3", "v4", "v5">>[i]

(* the fields of a bookmark that are filled; the others are empty *)
FilledPool ==
    {{"title", "notes", "favicon_url"}, {"description", "screenshot_url"},
     {"title", "description", "notes", "favicon_url", "screenshot_url"}}

Text(filled, f, i) == IF f \in filled THEN FieldValue(i) ELSE ""

(* All bookmarks of one owner; each has any of the pool's sets of fields
   filled, with values of its own. *)
InitFields ==
    \E ff \in [Ids -> FilledPool] :
        db = [i \in Ids |->
                 [Bookmark("u1", UrlOf(i),
                           IF "title" \in ff[i] THEN TitleOf(i) ELSE <<>>,
                           i, {"t1"})
                     EXCEPT !.description = Text(ff[i], "description", i),
                            !.notes = Text(ff[i], "notes", i),
                            !.favicon_url = Text(ff[i], "favicon_url", i),
                            !.screenshot_url = Text(ff[i], "screenshot_url", i)]]

(* is_favorite and is_read of a bookmark *)
FlagPool == {<<FALSE, FALSE>>, <<TRUE, FALSE>>, <<FALSE, TRUE>>}

(* All bookmarks of one owner, with any flags of the pool. *)
InitFlags ==
    \E flags \in [Ids -> FlagPool] :
        db = [i \in Ids |->
                 [Bookmark("u1", UrlOf(i), TitleOf(i), i, {"t1"})
                     EXCEPT !.is_favorite = flags[i][1],
                            !.is_read = flags[i][2]]]

InitMergeFields ==
    /\ InitFields \/ InitFlags
    /\ tx = db
    /\ now = MaxBookmarks + MaxTime
    /\ Idle
    /\ args = <<>>
    /\ returned = <<>>
    /\ health = <<>>
    /\ job = NoJob
    /\ worker = NoWorker

SpecFields == InitMergeFields /\ [][Next]_vars

(* BookmarkViewSet.bookmark_notes, POST (views.py 629-665), between merges.
   The content of a save is named after the time of the save, so every save
   writes a content of its own. *)

Note(user, content, t, is_active) ==
    [user |-> user, content |-> content, created_at |-> t, updated_at |-> t,
     is_active |-> is_active]

(* views.py 650-656 and models.py 284-297: create_revision adds an inactive
   copy of the active note, then the active note takes the new content *)
Revised(notes, k, content, t) ==
    Append([notes EXCEPT ![k].content = content, ![k].updated_at = t],
           Note(notes[k].user, notes[k].content, t, FALSE))

(* views.py 643-665 *)
NoteSaved(notes, user, content, t) ==
    IF FirstActive(notes) # 0
    THEN Revised(notes, FirstActive(notes), content, t)
    ELSE Append(notes, Note(user, content, t, TRUE))

(* the owner saves a note on bookmark b; no save once the clock is MaxTime
   past its start *)
SaveNote(b) ==
    /\ pc = "idle"
    /\ b \in DOMAIN db
    /\ now < MaxBookmarks + MaxTime + MaxTime
    /\ db' = [db EXCEPT ![b].bookmark_notes =
                            NoteSaved(@, db[b].user, now, now)]
    /\ tx' = db'
    /\ now' = now + 1
    /\ UNCHANGED <<pc, mergeLocals, seen, detected, applied, bulk>>

(* All bookmarks of one owner, created in id order, without notes. *)
InitNotes ==
    /\ db = [i \in Ids |-> Bookmark("u1", UrlOf(i), TitleOf(i), i, {"t1"})]
    /\ tx = db
    /\ now = MaxBookmarks + MaxTime
    /\ Idle
    /\ args = <<>>
    /\ returned = <<>>
    /\ health = <<>>
    /\ job = NoJob
    /\ worker = NoWorker

NextNotes ==
    \/ Next
    \/ \E b \in Ids : SaveNote(b)

SpecNotes == InitNotes /\ [][NextNotes]_vars

(* the same, with another request reading while a merge runs *)
NextConcurrent ==
    \/ Next
    \/ ReadPrimary

SpecConcurrent == Init /\ [][NextConcurrent]_vars

---------------------------------------------------------------------------
(* Duplicate detection: the duplicates endpoint and duplicate_bookmark *)

PageUrl == <<"h", "t", "t", "p", "s", ":", "/", "/", "e", "/", "a">>

TrackedUrl == <<"h", "t", "t", "p", "s", ":", "/", "/", "e", "/", "a", "?", "u", "t", "m", "_", "s", "o", "u", "r", "c", "e", "=", "x">>

MarkedUrl == <<"h", "t", "t", "p", "s", ":", "/", "/", "e", "/", "a", "?", "_", "d", "u", "p", "=", "1">>

OtherUrl == <<"h", "t", "t", "p", "s", ":", "/", "/", "e", "/", "b">>

UrlPool == {PageUrl, TrackedUrl, MarkedUrl, OtherUrl}

TitlePool == {<<>>, <<"a", "b", "c", "d", "e", "f">>, <<"a", "b", "c", "d", "e", "f", "g">>, <<"x", "y", "z">>}

(* owner and is_archived of a bookmark that user u1's detection must skip *)
Visibility == {<<"u1", TRUE>>, <<"u2", FALSE>>}

(* bookmark h is hidden in the way hv says, the others are u1's and visible *)
VisibilityOf(i, h, hv) == IF i = h THEN hv ELSE <<"u1", FALSE>>

(* The first n ids hold bookmarks with any URLs of the pool (unique per
   owner: unique_together), distinct short titles, created in id order; at
   most one of them is archived or another user's. *)
InitDetectUrls ==
    \E n \in 0..MaxBookmarks :
        \E uf \in [1..n -> UrlPool], h \in 0..n, hv \in Visibility :
            /\ \A i, j \in 1..n :
                   i # j /\ VisibilityOf(i, h, hv)[1] = VisibilityOf(j, h, hv)[1]
                       => uf[i] # uf[j]
            /\ db = [i \in 1..n |->
                        [Bookmark(VisibilityOf(i, h, hv)[1], uf[i], TitleOf(i),
                                  i, {"t1"})
                            EXCEPT !.is_archived = VisibilityOf(i, h, hv)[2]]]

(* One owner's visible bookmarks with distinct URLs and any titles of the
   pool. *)
InitDetectTitles ==
    \E n \in 0..MaxBookmarks :
        \E tf \in [1..n -> TitlePool] :
            db = [i \in 1..n |-> Bookmark("u1", UrlOf(i), tf[i], i, {"t1"})]

ThirdUrl == <<"h", "t", "t", "p", "s", ":", "/", "/", "e", "/", "c">>

SimilarTitles == {<<"a", "b", "c", "d", "e", "f">>, <<"a", "b", "c", "d", "e", "f", "g">>}

(* One owner's visible bookmarks with any URLs of the pool and titles that
   are similar to each other. *)
InitDetectMixed ==
    \E n \in 0..MaxBookmarks :
        \E uf \in [1..n -> {PageUrl, MarkedUrl, OtherUrl, ThirdUrl}],
           tf \in [1..n -> SimilarTitles] :
            /\ \A i, j \in 1..n : i # j => uf[i] # uf[j]
            /\ db = [i \in 1..n |-> Bookmark("u1", uf[i], tf[i], i, {"t1"})]

PlainUrl == <<"h", "t", "t", "p", ":", "/", "/", "e", "/", "a">>

PlainTrackedUrl == <<"h", "t", "t", "p", ":", "/", "/", "e", "/", "a", "?", "u", "t", "m", "_", "s", "o", "u", "r", "c", "e", "=", "x">>

UpperMarkedUrl == <<"H", "T", "T", "P", ":", "/", "/", "e", "/", "a", "?", "_", "d", "u", "p", "=", "1">>

(* One owner's visible bookmarks of one page over http, one of them a copy
   whose URL was typed with the scheme in capitals. *)
InitDetectCase ==
    \E n \in 0..MaxBookmarks :
        \E uf \in [1..n -> {PlainUrl, PlainTrackedUrl, UpperMarkedUrl}] :
            /\ \A i, j \in 1..n : i # j => uf[i] # uf[j]
            /\ db = [i \in 1..n |-> Bookmark("u1", uf[i], TitleOf(i), i, {"t1"})]

InitDetect ==
    /\ InitDetectUrls \/ InitDetectTitles \/ InitDetectMixed \/ InitDetectCase
    /\ tx = db
    /\ now = MaxBookmarks + MaxTime
    /\ Idle
    /\ args = <<>>
    /\ returned = <<>>
    /\ health = <<>>
    /\ job = NoJob
    /\ worker = NoWorker

(* the duplicates endpoint: detect_duplicates(request.user.id) *)
DetectDuplicates(u) ==
    /\ pc = "idle"
    /\ \E bookmarks \in QuerysetOrders(db, Candidates(db, u)) :
           \E pairs \in PairOrders(db, bookmarks) :
               groups' = detect_duplicates(db, bookmarks, pairs)
    /\ user_id' = u
    /\ UNCHANGED <<db, tx, pc, mergeLocals, seen, now, applied, bulk>>

(* str() of a natural number *)
RECURSIVE Str(_)
Str(n) == IF n < 10 THEN <<Chr(n)>> ELSE Str(n \div 10) \o <<Chr(n % 10)>>

(* query_params[key] = [value] *)
SetItem(dict, k, v) ==
    IF Holds(dict, k)
    THEN [i \in 1..Len(dict) |->
             IF dict[i].key = k THEN [key |-> k, values |-> <<v>>] ELSE dict[i]]
    ELSE Append(dict, [key |-> k, values |-> <<v>>])

DupFromParam == <<"_", "d", "u", "p", "_", "f", "r", "o", "m">>

(* views.py 1262-1285: the URL of the copy *)
UrlWith(parsed_url, timestamp, original_id) ==
    urlunparse(parsed_url.scheme, parsed_url.netloc, parsed_url.path,
               urlencode(SetItem(SetItem(parse_qs(parsed_url.query),
                                         DupParam, Str(timestamp)),
                                 DupFromParam, Str(original_id))),
               parsed_url.fragment)

unique_url(url, timestamp, original_id) ==
    UrlWith(urlparse(url), timestamp, original_id)

CopySuffix == <<" ", "(", "C", "o", "p", "y", ")">>

(* views.py 1287-1298: the row of the copy *)
CopyOf(original, pk, t) ==
    [Bookmark(original.user, unique_url(original.url, t, pk),
              original.title \o CopySuffix, t, original.tags)
        EXCEPT !.description = original.description,
               !.notes = original.notes,
               !.favicon_url = original.favicon_url,
               !.screenshot_url = original.screenshot_url,
               !.activities = <<[activity_type |-> "created",
                                 user |-> original.user,
                                 duplicated_from |-> pk]>>]

Inserted(store, id, row) ==
    [i \in DOMAIN store \cup {id} |-> IF i = id THEN row ELSE store[i]]

(* unique_together = ['user', 'url'] *)
UrlTaken(store, u, url) ==
    \E b \in DOMAIN store : store[b].user = u /\ store[b].url = url

(* views.py duplicate_bookmark: user u copies the bookmark pk; the copy gets
   the next id, and the handler ends with a detection for u *)
DuplicateBookmark(u, pk) ==
    /\ pc = "idle"
    /\ pk \in DOMAIN db
    /\ db[pk].user = u
    /\ Ids \ DOMAIN db # {}
    /\ ~UrlTaken(db, u, unique_url(db[pk].url, now, pk))
    /\ db' = Inserted(db, Min(Ids \ DOMAIN db), CopyOf(db[pk], pk, now))
    /\ tx' = db'
    /\ \E bookmarks \in QuerysetOrders(db', Candidates(db', u)) :
           \E pairs \in PairOrders(db', bookmarks) :
               groups' = detect_duplicates(db', bookmarks, pairs)
    /\ user_id' = u
    /\ now' = now + 1
    /\ UNCHANGED <<pc, mergeLocals, seen, applied, bulk>>

NextDetect ==
    \/ \E u \in Users : DetectDuplicates(u)
    \/ \E u \in Users, pk \in Ids : DuplicateBookmark(u, pk)

(* requests that look for duplicates and copy bookmarks *)
SpecDetect == InitDetect /\ [][NextDetect]_vars

---------------------------------------------------------------------------
(* The trigram-indexed title strategy on its own: _detect_title_duplicates
   hands a collection of more than TitleScanLimit bookmarks to it. *)

SpacedTitles ==
    {<<"a", " ", "b">>, <<"a", " ", " ", "b">>, <<"a", "b", "c", "d", "e", "f">>, <<"a", "b", "c", "d", "e", "f", "g">>}

InitEfficient ==
    /\ \E n \in 0..MaxBookmarks :
           \E tf \in [1..n -> SpacedTitles] :
               db = [i \in 1..n |-> Bookmark("u1", UrlOf(i), tf[i], i, {"t1"})]
    /\ tx = db
    /\ now = MaxBookmarks + MaxTime
    /\ Idle
    /\ args = <<>>
    /\ returned = <<>>
    /\ health = <<>>
    /\ job = NoJob
    /\ worker = NoWorker

DetectTitlesEfficient(u) ==
    /\ pc = "idle"
    /\ \E bookmarks \in QuerysetOrders(db, Candidates(db, u)) :
           \E pairs \in Orderings(candidate_pairs(db, Titled(db, bookmarks))) :
               groups' = detect_title_duplicates_efficient(db, pairs)
    /\ user_id' = u
    /\ UNCHANGED <<db, tx, pc, mergeLocals, seen, now, applied, bulk>>

NextEfficient == \E u \in Users : DetectTitlesEfficient(u)

SpecEfficient == InitEfficient /\ [][NextEfficient]_vars

---------------------------------------------------------------------------
(* normalize_url (utils.py 250-253) applied to one URL.  The URL is put      *)
(* together from a scheme part, a host, a path and a query, so that the      *)
(* pool holds URLs that differ in one of these only.                         *)

UpperScheme == <<"H", "T", "T", "P", "S", ":", "/", "/">>

SchemePool == {<<>>, HttpPrefix, HttpsPrefix, UpperScheme}

HostPool ==
    {<<"e">>, <<"E">>, <<"w", "w", "w", ".", "e">>, <<"W", "W", "W", ".", "E">>,
     <<"w", "w", "w", ".", "w", "w", "w", ".", "e">>, <<"[", "e">>}

PathPool == {<<>>, <<"/">>, <<"/", "a">>, <<"/", "a", "/">>, <<"/", "/", "a">>}

TrackingQuery ==
    <<"u", "t", "m", "_", "s", "o", "u", "r", "c", "e", "=", "x">>

QueryPool ==
    {<<>>, <<"?">> \o TrackingQuery, <<"?", "x", "=", "1">>,
     <<"?", "x", "=", "1", "&", "r", "e", "f", "=", "2">>}

UrlParts ==
    [scheme : SchemePool, host : HostPool, path : PathPool, query : QueryPool]

UrlFrom(parts) == parts.scheme \o parts.host \o parts.path \o parts.query

NoCall == db = <<>> /\ tx = db /\ now = MaxBookmarks + MaxTime /\ Idle

InitNormalize ==
    /\ \E parts \in UrlParts : args = <<UrlFrom(parts)>>
    /\ returned = <<>>
    /\ health = <<>>
    /\ job = NoJob
    /\ worker = NoWorker
    /\ NoCall

NormalizeUrl ==
    /\ returned = <<>>
    /\ returned' = <<normalize_url(args[1])>>
    /\ UNCHANGED <<db, tx, pc, mergeLocals, seen, now, detected, args, health, bulk>>

NextNormalize == NormalizeUrl

SpecNormalize == InitNormalize /\ [][NextNormalize]_vars

---------------------------------------------------------------------------
(* calculate_text_similarity (utils.py 261-290) applied to two texts. *)

TextPool ==
    {<<>>, <<"a", "b", "c">>, <<"A", "B", "C">>, <<"a", "b", " ">>,
     <<" ", " ", " ">>, <<"a", "b", "c", "d">>, <<"b", "c", "d">>,
     <<"a", " ", "b">>, <<"a", " ", " ", "b">>, <<"x", "y", "z">>,
     <<"a", "b">>}

InitSimilarity ==
    /\ \E text1 \in TextPool : \E text2 \in TextPool : args = <<text1, text2>>
    /\ returned = <<>>
    /\ health = <<>>
    /\ job = NoJob
    /\ worker = NoWorker
    /\ NoCall

CompareTexts ==
    /\ returned = <<>>
    /\ returned' = <<calculate_text_similarity(args[1], args[2])>>
    /\ UNCHANGED <<db, tx, pc, mergeLocals, seen, now, detected, args, health, bulk>>

NextSimilarity == CompareTexts

SpecSimilarity == InitSimilarity /\ [][NextSimilarity]_vars

---------------------------------------------------------------------------
(* LinkHealthChecker (link_health.py).  A LinkHealth row belongs to one
   bookmark (bookmark.health); health maps the bookmark's id to it. *)

(* the statuses a row carries, in the ascending order of the column's
   strings, which is the order of order_by('health__status') *)
StatusOrder == <<"archived", "broken", "ok", "pending", "redirected">>

Rank(status) == CHOOSE i \in 1..Len(StatusOrder) : StatusOrder[i] = status

LinkHealth(status, last_checked, next_check, check_count) ==
    [status |-> status, last_checked |-> last_checked,
     next_check |-> next_check, check_count |-> check_count,
     final_url |-> <<>>]

HealthPool ==
    {LinkHealth(status, last_checked, MaxBookmarks + MaxTime + later, 1) :
        status \in {"archived", "broken", "ok"},
        last_checked \in 1..MaxTime, later \in {0, 1}}

(* One owner's visible bookmarks; each has no LinkHealth row or any row of
   the pool. *)
InitHealthRows ==
    \E n \in 0..MaxBookmarks :
        \E checked \in SUBSET (1..n) :
            \E rows \in [checked -> HealthPool] :
                /\ db = [i \in 1..n |->
                            Bookmark("u1", UrlOf(i), TitleOf(i), i, {"t1"})]
                /\ health = rows

(* Bookmarks without LinkHealth rows; at most one of them is archived or
   another user's. *)
InitHealthOwners ==
    \E n \in 0..MaxBookmarks :
        \E h \in 0..n, hv \in Visibility :
            /\ db = [i \in 1..n |->
                        [Bookmark(VisibilityOf(i, h, hv)[1], UrlOf(i),
                                  TitleOf(i), i, {"t1"})
                            EXCEPT !.is_archived = VisibilityOf(i, h, hv)[2]]]
            /\ health = <<>>

InitHealth ==
    /\ InitHealthRows \/ InitHealthOwners
    /\ tx = db
    /\ now = MaxBookmarks + MaxTime
    /\ Idle
    /\ args = <<>>
    /\ returned = <<>>
    /\ job = NoJob
    /\ worker = NoWorker

(* lines 177-182, 194-198: the owner filter (None: every owner) and
   is_archived=False *)
Selectable(store, owner) ==
    {b \in DOMAIN store :
        ~store[b].is_archived /\ (owner = "" \/ store[b].user = owner)}

(* lines 173-175: health__isnull=True *)
Unchecked(store, rows, owner) ==
    {b \in Selectable(store, owner) : b \notin DOMAIN rows}

(* lines 192-195: health__next_check__lte=now *)
Due(store, rows, owner, t) ==
    {b \in Selectable(store, owner) :
        b \in DOMAIN rows /\ rows[b].next_check <= t}

(* lines 201-206: ascending by status, then by last_checked; rows equal in
   both come in any order *)
SortsBefore(row1, row2) ==
    \/ Rank(row1.status) < Rank(row2.status)
    \/ row1.status = row2.status /\ row1.last_checked < row2.last_checked

RecheckOrders(rows, found) ==
    {s \in Orderings(found) :
        \A i, j \in 1..Cardinality(found) :
            i < j => ~SortsBefore(rows[s[j]], rows[s[i]])}

(* queryset[:limit] *)
Sliced(s, limit) == SubSeq(s, 1, Min({limit, Len(s)}))

(* lines 185-211 *)
Combined(unchecked_bookmarks, recheck, limit) ==
    IF Len(unchecked_bookmarks) < limit
    THEN unchecked_bookmarks
             \o Sliced(recheck, limit - Len(unchecked_bookmarks))
    ELSE unchecked_bookmarks

get_bookmarks_for_checking(unchecked, recheck, limit) ==
    Combined(Sliced(unchecked, limit), recheck, limit)

GetBookmarksForChecking(owner, limit) ==
    /\ pc = "idle"
    /\ returned = <<>>
    /\ args' = <<owner, limit>>
    /\ \E unchecked \in QuerysetOrders(db, Unchecked(db, health, owner)) :
           \E recheck \in RecheckOrders(health, Due(db, health, owner, now)) :
               returned' = <<get_bookmarks_for_checking(unchecked, recheck,
                                                        limit)>>
    /\ UNCHANGED <<db, tx, pc, mergeLocals, seen, now, detected, health, bulk>>

(* What the remote site answers to the HEAD request: a network-level failure
   or a response with the status code and the URL after redirects. *)
OtherPage == <<"h", "t", "t", "p", ":", "/", "/", "n", "/", "x">>

Snapshot == <<"h", "t", "t", "p", ":", "/", "/", "w", "/", "x">>

NoResponse == [failed |-> TRUE, status_code |-> 0, url |-> <<>>]

Responses(url) ==
    {NoResponse}
    \cup {[failed |-> FALSE, status_code |-> code, url |-> final] :
             code \in {200, 404}, final \in {url, OtherPage}}

(* the keyword arguments Session.request of the requests library takes;
   requests.head hands its keywords on to it *)
SessionKeywords ==
    {"params", "data", "headers", "cookies", "files", "auth", "timeout",
     "allow_redirects", "proxies", "hooks", "stream", "verify", "cert",
     "json"}

(* lines 64-70: the keywords check_url passes to requests.head *)
HeadKeywords == {"headers", "timeout", "allow_redirects", "max_redirects"}

Result(raised, status, status_code, final_url, archive_url) ==
    [raised |-> raised, status |-> status, status_code |-> status_code,
     final_url |-> final_url, archive_url |-> archive_url]

(* lines 72-95 *)
Probed(url, response) ==
    IF response.failed
    THEN Result("", "broken", 0, <<>>, <<>>)
    ELSE Result("",
                IF response.status_code >= 400 THEN "broken"
                ELSE IF response.url # url THEN "redirected" ELSE "ok",
                response.status_code, response.url, <<>>)

(* lines 97-103: snapshot is what _check_web_archive returns, <<>> for None *)
Archived(probed, snapshot) ==
    IF probed.status = "broken" /\ snapshot # <<>>
    THEN [probed EXCEPT !.status = "archived", !.archive_url = snapshot]
    ELSE probed

(* lines 42-105.  A keyword Session.request does not take makes the call of
   line 64 raise TypeError, which is no RequestException: line 90 does not
   catch it and check_url raises. *)
check_url(url, response, snapshot) ==
    IF HeadKeywords \subseteq SessionKeywords
    THEN Archived(Probed(url, response), snapshot)
    ELSE Result("TypeError", "", 0, <<>>, <<>>)

CheckUrl(b) ==
    /\ pc = "idle"
    /\ returned = <<>>
    /\ b \in DOMAIN db
    /\ \E response \in Responses(db[b].url), snapshot \in {<<>>, Snapshot} :
           /\ args' = <<db[b].url, response, snapshot>>
           /\ returned' = <<check_url(db[b].url, response, snapshot)>>
    /\ UNCHANGED <<db, tx, pc, mergeLocals, seen, now, detected, health, bulk>>

(* lines 132-136: bookmark.health, or a new LinkHealth(bookmark=bookmark) *)
RowOf(rows, b) ==
    IF b \in DOMAIN rows THEN rows[b] ELSE LinkHealth("pending", 0, 0, 0)

(* LinkHealth.update_next_check_time: the backoff policy sets next_check to
   some time after the check *)
update_next_check_time(row, next_check) == [row EXCEPT !.next_check = next_check]

(* lines 142-152 *)
Checked(row, checked, t, next_check) ==
    update_next_check_time(
        [row EXCEPT !.status = checked.status, !.last_checked = t,
                    !.final_url = checked.final_url,
                    !.check_count = @ + 1],
        next_check)

(* line 155: health.save() *)
SaveHealth(rows, b, row) ==
    [x \in DOMAIN rows \cup {b} |-> IF x = b THEN row ELSE rows[x]]

(* lines 128-160: check_url raising is caught at line 158, nothing is stored
   and None is returned *)
ProcessChecked(b, checked, next_check) ==
    IF checked.raised # ""
    THEN /\ returned' = <<"None">>
         /\ health' = health
    ELSE /\ returned' = <<Checked(RowOf(health, b), checked, now, next_check)>>
         /\ health' = SaveHealth(health, b,
                          Checked(RowOf(health, b), checked, now, next_check))

ProcessBookmark(b) ==
    /\ pc = "idle"
    /\ returned = <<>>
    /\ b \in DOMAIN db
    /\ args' = <<b>>
    /\ \E response \in Responses(db[b].url), snapshot \in {<<>>, Snapshot},
          later \in 1..MaxTime :
           ProcessChecked(b, check_url(db[b].url, response, snapshot),
                          now + later)
    /\ UNCHANGED <<db, tx, pc, mergeLocals, seen, now, detected, bulk>>

(* URLEnricher.fetch_page_metadata (utils.py 106-165).  What the remote site
   answers to the GET request: a network-level failure, or a response with
   its status code and its content: an HTML page, a page of a content type
   that is not allowed, or a page above max_content_length. *)
NoPage == [failed |-> TRUE, status_code |-> 0, content |-> ""]

Pages ==
    {NoPage}
    \cup {[failed |-> FALSE, status_code |-> code, content |-> content] :
             code \in {200, 404}, content \in {"html", "other", "large"}}

(* lines 108-109, 119-165: the metadata, or the ValueError raised *)
fetch_page_metadata(url, allowed, page) ==
    IF ~allowed THEN [raised |-> "URL is not allowed", metadata |-> <<>>]
    ELSE IF page.failed \/ page.status_code >= 400
    THEN [raised |-> "Failed to fetch URL", metadata |-> <<>>]
    ELSE IF page.content # "html"
    THEN [raised |-> "Failed to process URL", metadata |-> <<>>]
    ELSE [raised |-> "", metadata |-> normalize_url(url)]

(* enrich_url (utils.py 245-248).  allowed is what is_url_allowed finds:
   BLOCKED_DOMAINS is a setting. *)
EnrichUrl(b) ==
    /\ pc = "idle"
    /\ returned = <<>>
    /\ b \in DOMAIN db
    /\ \E allowed \in BOOLEAN, page \in Pages :
           /\ args' = <<db[b].url, allowed, page, "enrich_url">>
           /\ returned' = <<fetch_page_metadata(db[b].url, allowed, page)>>
    /\ UNCHANGED <<db, tx, pc, mergeLocals, seen, now, detected, health, bulk>>

NextHealth ==
    \/ \E owner \in Users \cup {""}, limit \in 1..MaxBookmarks :
           GetBookmarksForChecking(owner, limit)
    \/ \E b \in Ids : CheckUrl(b)
    \/ \E b \in Ids : ProcessBookmark(b)
    \/ \E b \in Ids : EnrichUrl(b)

SpecHealth == InitHealth /\ [][NextHealth]_vars

---------------------------------------------------------------------------
(* Bulk action jobs: BulkActionProcessor.start_job (bulk_actions.py 34-111) *)
(* working on one stored job, step by step, while the job's owner may       *)
(* cancel it (views.py 1528-1543).                                          *)

ActionTypes == {"archive", "favorite", "mark_read", "delete", "merge"}

(* lines 134, 266, 300, 334, 369: filter(id__in=bookmark_ids, user=job.user) *)
JobBookmarks(store, j) ==
    {b \in DOMAIN store : b \in j.bookmark_ids /\ store[b].user = j.user}

(* lines 275-284, 309-318, 345-354: the activity a handler logs *)
BulkActivity(j, activity_type) == [activity_type |-> activity_type, user |-> j.user]

(* lines 269-284 with archive=True *)
Archived_row(row, j) ==
    [row EXCEPT !.is_archived = TRUE,
                !.activities = Append(@, BulkActivity(j, "archived"))]

(* lines 303-318 with favorite=True *)
Favorited_row(row, j) ==
    [row EXCEPT !.is_favorite = TRUE,
                !.activities = Append(@, BulkActivity(j, "favorited"))]

(* lines 337-354 with read=True *)
MarkedRead_row(row, j) ==
    [row EXCEPT !.is_read = TRUE,
                !.activities = Append(@, BulkActivity(j, "visited"))]

(* the handlers that update the job's bookmarks in place *)
HandledRow(row, j) ==
    IF j.action_type = "archive" THEN Archived_row(row, j)
    ELSE IF j.action_type = "favorite" THEN Favorited_row(row, j)
    ELSE MarkedRead_row(row, j)

(* lines 58-76: the store after the handler of an action type other than
   'merge' ran; 'delete' is lines 365-393 *)
Handled(store, j) ==
    IF j.action_type = "delete"
    THEN [b \in DOMAIN store \ JobBookmarks(store, j) |-> store[b]]
    ELSE [b \in DOMAIN store |->
             IF b \in JobBookmarks(store, j) THEN HandledRow(store[b], j)
             ELSE store[b]]

(* views.py 1545-1563: retry makes a failed job pending and processes it *)
Retry ==
    /\ pc = "idle"
    /\ worker.at = "idle"
    /\ job.status = "failed"
    /\ job' = [job EXCEPT !.status = "pending"]
    /\ worker' = BulkActionProcessor("created", FALSE)
    /\ UNCHANGED <<db, tx, pc, mergeLocals, seen, now, detected, applied>>

(* views.py 1510-1521: the job was created; process_bulk_action_job begins *)
ProcessBulkActionJob ==
    /\ pc = "idle"
    /\ worker.at = "idle"
    /\ job.status = "pending"
    /\ worker' = BulkActionProcessor("created", FALSE)
    /\ UNCHANGED <<db, tx, pc, mergeLocals, seen, now, detected, applied, job>>

(* lines 23-33, 36: get_job loads the row; the processor keeps the copy *)
GetJob ==
    /\ worker.at = "created"
    /\ worker' = BulkActionProcessor(
                     IF job.status = "pending" THEN "loaded" ELSE "refused", FALSE)
    /\ UNCHANGED <<db, tx, pc, mergeLocals, seen, now, detected, applied, job>>

(* lines 41-43: the copy is not pending; start_job returns False *)
StartRefused ==
    /\ worker.at = "refused"
    /\ worker' = NoWorker
    /\ UNCHANGED <<db, tx, pc, mergeLocals, seen, now, detected, applied, job>>

(* lines 45-47: the copy is pending; 'processing' is saved *)
StartProcessing ==
    /\ worker.at = "loaded"
    /\ job' = [job EXCEPT !.status = "processing"]
    /\ worker' = BulkActionProcessor("processing", FALSE)
    /\ UNCHANGED <<db, tx, pc, mergeLocals, seen, now, detected, applied>>

(* lines 58-76: a handler other than _process_merge, in its atomic block *)
ProcessHandler ==
    /\ worker.at = "processing"
    /\ job.action_type # "merge"
    /\ db' = Handled(db, job)
    /\ tx' = db'
    /\ worker' = BulkActionProcessor("handled", TRUE)
    /\ UNCHANGED <<pc, mergeLocals, seen, now, detected, applied, job>>

(* lines 584-608: what _process_merge refuses before it merges *)
MergeRefused(j) ==
    \/ j.parameters = NoId
    \/ j.parameters \notin j.bookmark_ids
    \/ j.bookmark_ids \ {j.parameters} = {}

(* lines 584-608 *)
ProcessMergeRefused ==
    /\ worker.at = "processing"
    /\ job.action_type = "merge"
    /\ MergeRefused(job)
    /\ worker' = BulkActionProcessor("handled", FALSE)
    /\ UNCHANGED <<db, tx, pc, mergeLocals, seen, now, detected, applied, job>>

(* lines 611-613: merge_bookmarks(primary_id, duplicate_ids) is called *)
ProcessMerge ==
    /\ worker.at = "processing"
    /\ job.action_type = "merge"
    /\ ~MergeRefused(job)
    /\ MergeBegin(job.parameters, job.bookmark_ids \ {job.parameters})

(* lines 615-629: merge_bookmarks returned or raised *)
ProcessMerged ==
    /\ worker.at = "processing"
    /\ pc = "done"
    /\ worker' = BulkActionProcessor("handled", result = "ok")
    /\ pc' = "idle"
    /\ primary_id' = NoId
    /\ duplicate_ids' = {}
    /\ duplicates' = <<>>
    /\ idx' = 1
    /\ primary' = NoBookmark
    /\ needs_rollback' = FALSE
    /\ failed' = {}
    /\ result' = "none"
    /\ pre' = <<>>
    /\ tx' = db
    /\ UNCHANGED <<db, seen, now, detected, applied, job>>

(* lines 92-104: the status by the handler's result; job.save() writes every
   field of the processor's copy *)
FinishJob ==
    /\ worker.at = "handled"
    /\ job' = [job EXCEPT !.status = IF worker.success THEN "completed" ELSE "failed"]
    /\ worker' = NoWorker
    /\ UNCHANGED <<db, tx, pc, mergeLocals, seen, now, detected, applied>>

(* views.py 1528-1543: the job's owner cancels it *)
Cancel ==
    /\ job.status \in {"pending", "processing"}
    /\ job' = [job EXCEPT !.status = "cancelled"]
    /\ UNCHANGED <<db, tx, pc, mergeLocals, seen, now, detected, applied, worker>>

(* Bookmarks of any owners and a stored job of any user, pending or failed,
   over any ids; primary_id is given to merge jobs only. *)
InitJobs ==
    /\ \E uf \in [Ids -> Users] :
           db = [i \in Ids |-> Bookmark(uf[i], UrlOf(i), TitleOf(i), i, {"t1"})]
    /\ tx = db
    /\ now = MaxBookmarks + MaxTime
    /\ Idle
    /\ args = <<>>
    /\ returned = <<>>
    /\ health = <<>>
    /\ \E u \in Users, action_type \in ActionTypes,
          bookmark_ids \in SUBSET Ids \ {{}}, pid \in Ids \cup {NoId},
          status \in {"pending", "failed"} :
           /\ action_type # "merge" => pid = NoId
           /\ job = BulkActionJob(u, action_type, bookmark_ids, pid, status)
    /\ worker = NoWorker

NextJobs ==
    \/ Retry
    \/ ProcessBulkActionJob
    \/ GetJob
    \/ StartRefused
    \/ StartProcessing
    \/ ProcessHandler
    \/ ProcessMergeRefused
    \/ ProcessMerge
    \/ MergeTags
    \/ MergeNotes
    \/ MergeSave
    \/ \E outcome \in {"ok", "log_fails", "delete_fails"} : MergeCleanup(outcome)
    \/ MergeReturn
    \/ ProcessMerged
    \/ FinishJob
    \/ Cancel

(* one job, its processor and cancel requests *)
SpecJobs == InitJobs /\ [][NextJobs]_vars

---------------------------------------------------------------------------
(* LinkHealthRepair.apply_redirect (link_health.py 235-282): one call in its *)
(* atomic block.  A statement of the block may raise a database error; which *)
(* one does is an input of the call.                                         *)

NewUrl == <<"h", "t", "t", "p", ":", "/", "/", "e", "/", "n">>

(* line 251 *)
Repairable(row) == row.status = "redirected" /\ row.final_url # <<>>

(* lines 248-252: a row is missing (DoesNotExist) or not to be repaired
   (ValueError) *)
NotRepairable(store, rows, b) ==
    \/ b \notin DOMAIN store
    \/ b \notin DOMAIN rows
    \/ ~Repairable(rows[b])

(* models.py 127: unique_together = ['user', 'url'] *)
UrlConflict(store, b, url) ==
    \E x \in DOMAIN store \ {b} :
        store[x].user = store[b].user /\ store[x].url = url

(* lines 258-259: bookmark.url = health.final_url; bookmark.save() *)
UrlSaved(store, b, url, t) ==
    [store EXCEPT ![b] = SaveRow(@, [@ EXCEPT !.url = url], t)]

(* lines 262-265 *)
HealthRepaired(rows, b, t, next_check) ==
    [rows EXCEPT ![b] = update_next_check_time(
                            [@ EXCEPT !.status = "ok", !.last_checked = t],
                            next_check)]

(* lines 268-277 *)
LogRepaired(store, b, u) ==
    [store EXCEPT ![b].activities =
        Append(@, [activity_type |-> "updated", user |-> u])]

(* the statement of lines 248-277 that raises: "check" for lines 248-252,
   "bookmark" for line 259, "health" for line 265, "activity" for line 268,
   "" when none does *)
RaisedAt(store, rows, b, fails) ==
    IF NotRepairable(store, rows, b) THEN "check"
    ELSE IF fails = "bookmark" \/ UrlConflict(store, b, rows[b].final_url)
    THEN "bookmark"
    ELSE fails

(* Model.save() and objects.create() mark the atomic block for rollback when
   the database raises; DoesNotExist and ValueError do not *)
MarkedForRollback(raised_at) == raised_at \in {"bookmark", "health", "activity"}

(* the bookmark rows as written inside the block when it is left *)
WrittenBookmarks(store, rows, b, u, raised_at, t) ==
    IF raised_at \in {"check", "bookmark"} THEN store
    ELSE IF raised_at \in {"health", "activity"}
    THEN UrlSaved(store, b, rows[b].final_url, t)
    ELSE LogRepaired(UrlSaved(store, b, rows[b].final_url, t), b, u)

(* the LinkHealth rows as written inside the block when it is left *)
WrittenHealth(rows, b, raised_at, t, next_check) ==
    IF raised_at \in {"check", "bookmark", "health"} THEN rows
    ELSE HealthRepaired(rows, b, t, next_check)

(* the block commits what was written although it was marked for rollback *)
AtomicExit_commits(marked, before, written) == written

(* line 235: the except of line 280 returns None, so the atomic block is left
   without an exception: it commits unless it was marked for rollback *)
AtomicExit(marked, before, written) == IF marked THEN before ELSE written

(* lines 279-282: the bookmark instance, or None (NoBookmark) *)
RepairResult(store, rows, b, raised_at, t) ==
    IF raised_at # "" THEN NoBookmark
    ELSE UrlSaved(store, b, rows[b].final_url, t)[b]

(* apply_redirect(bookmark_id, user_id) with bookmark_id = b, user_id = u *)
ApplyRedirect(b, u) ==
    /\ pc = "idle"
    /\ returned = <<>>
    /\ \E fails \in {"", "bookmark", "health", "activity"}, later \in 1..MaxTime :
           /\ args' = <<b, u, fails>>
           /\ db' = AtomicExit(MarkedForRollback(RaisedAt(db, health, b, fails)), db,
                               WrittenBookmarks(db, health, b, u,
                                                RaisedAt(db, health, b, fails), now))
           /\ health' = AtomicExit(MarkedForRollback(RaisedAt(db, health, b, fails)),
                                   health,
                                   WrittenHealth(health, b,
                                                 RaisedAt(db, health, b, fails),
                                                 now, now + later))
           /\ returned' = <<RepairResult(db, health, b,
                                         RaisedAt(db, health, b, fails), now)>>
    /\ tx' = db'
    /\ now' = now + 1
    /\ UNCHANGED <<pc, mergeLocals, seen, detected, bulk>>

(* serializers.py 259-269: status and final_url of a LinkHealth row are
   written through the API *)
RepairPool ==
    {[LinkHealth(row[1], 1, MaxBookmarks + MaxTime, 1) EXCEPT !.final_url = row[2]] :
        row \in {<<"redirected", <<>>>>, <<"redirected", UrlOf(1)>>,
                 <<"redirected", NewUrl>>, <<"ok", NewUrl>>}}

(* Bookmarks of u1, the first one of any owner; each has no LinkHealth row or
   any row of the pool. *)
InitRepair ==
    /\ \E n \in 0..MaxBookmarks :
           \E first \in Users, checked \in SUBSET (1..n) :
               \E rows \in [checked -> RepairPool] :
                   /\ db = [i \in 1..n |->
                               Bookmark(IF i = 1 THEN first ELSE "u1", UrlOf(i),
                                        TitleOf(i), i, {"t1"})]
                   /\ health = rows
    /\ tx = db
    /\ now = MaxBookmarks + MaxTime
    /\ Idle
    /\ args = <<>>
    /\ returned = <<>>
    /\ job = NoJob
    /\ worker = NoWorker

NextRepair == \E b \in Ids, u \in Users : ApplyRedirect(b, u)

(* one request that repairs a redirected bookmark *)
SpecRepair == InitRepair /\ [][NextRepair]_vars

---------------------------------------------------------------------------
(* Properties of merge_bookmarks *)

Returned == pc = "done" /\ result = "ok"
Raised == pc = "done" /\ result # "ok"

(* the duplicates the call found and merged *)
Merged == FoundDuplicates(pre, primary_id, duplicate_ids)

MergedEntries(store, d) ==
    {k \in 1..Len(store[primary_id].activities) :
        /\ store[primary_id].activities[k].activity_type = "merged"
        /\ store[primary_id].activities[k].merged_from = d}

(* C1: after merge_bookmarks returns, the primary is still stored and no
   bookmark with an id of duplicate_ids other than primary_id is. *)
C1_DuplicatesGone ==
    Returned =>
        /\ primary_id \in DOMAIN db
        /\ \A d \in duplicate_ids \ {primary_id} : d \notin DOMAIN db

C1_Witness ==
    /\ Returned
    /\ Cardinality(Merged) >= 2
    /\ DOMAIN db = {primary_id}

(* C2: merge_bookmarks raises and changes nothing whenever primary_id or one
   of the ids of duplicate_ids references no stored bookmark. *)
C2_MissingIdRaises ==
    (pc = "done" /\ (primary_id \notin DOMAIN pre
                     \/ \E d \in duplicate_ids : d \notin DOMAIN pre))
        => (Raised /\ db = pre)

(* C3: after a merge the primary's tags are the union of the tags the primary
   and the merged duplicates had before it. *)
C3_TagsAreUnion ==
    Returned =>
        db[primary_id].tags =
            pre[primary_id].tags \cup UNION {pre[d].tags : d \in Merged}

C3_Witness ==
    /\ Returned
    /\ Cardinality(Merged) >= 2
    /\ pre[primary_id].tags = {"t1"}
    /\ db[primary_id].tags = {"t1", "t2"}

(* C4: after a merge the primary's stored created_at is the least created_at
   the primary and the merged duplicates had before it. *)
C4_CreatedAtIsEarliest ==
    Returned =>
        db[primary_id].created_at =
            Min({pre[x].created_at : x \in {primary_id} \cup Merged})

C4_Witness ==
    /\ Returned
    /\ Cardinality(Merged) >= 2
    /\ db[primary_id].created_at < pre[primary_id].created_at

(* C5: after a merge the primary carries exactly one 'merged' activity entry
   naming each merged duplicate, and at no point of the call is a duplicate
   deleted without its entry having been written. *)
C5_OneEntryPerDuplicate ==
    /\ Returned => \A d \in Merged : Cardinality(MergedEntries(db, d)) = 1
    /\ pc \in {"cleanup", "return"} =>
           \A d \in Range(duplicates) :
               d \notin DOMAIN tx => MergedEntries(tx, d) # {}

C5_Witness ==
    /\ Returned
    /\ Cardinality(Merged) >= 2
    /\ Len(db[primary_id].activities) = Cardinality(Merged)

(* C6: a merge whose duplicate_ids hold the primary's id only raises 'Cannot
   merge a bookmark with itself' and changes nothing. *)
C6_SelfMergeRejected ==
    (pc = "done" /\ primary_id # NoId /\ duplicate_ids = {primary_id})
        => (result = ErrSelf /\ db = pre)

C6_Witness ==
    /\ pc = "done"
    /\ primary_id \in DOMAIN pre
    /\ duplicate_ids = {primary_id}
    /\ result = ErrSelf

(* C7: a merge with a duplicate of another owner than the primary's raises
   'Cannot merge bookmarks from different users' and changes nothing. *)
C7_CrossOwnerRejected ==
    (/\ pc = "done"
     /\ primary_id \in DOMAIN pre
     /\ \E d \in duplicate_ids \ {primary_id} :
            d \in DOMAIN pre /\ pre[d].user # pre[primary_id].user)
        => (result = ErrUsers /\ db = pre)

C7_Witness ==
    /\ pc = "done"
    /\ result = ErrUsers
    /\ \E d, e \in Merged :
           /\ pre[d].user # pre[primary_id].user
           /\ pre[e].user = pre[primary_id].user

(* C8: a reader running beside a merge sees the primary as it was before the
   merge or, once the merge has returned, as the merge left it, never with
   part of the changes; and a merge that raises leaves the store as it was. *)
C8_MergeIsAtomic ==
    /\ \A r \in seen :
           \/ r = pre[primary_id]
           \/ Returned /\ r = db[primary_id]
    /\ Raised => db = pre

C8_Witness ==
    /\ pc = "cleanup"
    /\ seen # {}
    /\ tx[primary_id].tags # pre[primary_id].tags
    /\ tx[primary_id].created_at # pre[primary_id].created_at

(* C9: a failure while logging or deleting one duplicate does not abort the
   merge: the call returns the primary, and the duplicates whose own step did
   not fail are deleted. *)
C9_CleanupFailureTolerated ==
    (pc = "done" /\ failed # {}) =>
        /\ result = "ok"
        /\ primary_id \in DOMAIN db
        /\ \A d \in Range(duplicates) \ failed : d \notin DOMAIN db

---------------------------------------------------------------------------
(* Properties of detect_duplicates *)

(* C10: every group detect_duplicates(owner) returns holds at least two
   distinct bookmarks, each of them the owner's and not archived. *)
C10_GroupsAreSound ==
    \A i \in 1..Len(groups) :
        /\ Cardinality(Range(groups[i].bookmarks)) >= 2
        /\ \A b \in Range(groups[i].bookmarks) :
               b \in DOMAIN db /\ db[b].user = user_id /\ ~db[b].is_archived

UrlKind(g) == "normalized_url" \in DOMAIN g

TitleKind(g) == "title_similarity" \in DOMAIN g

(* C11: in what detect_duplicates returns, no bookmark is a member of a URL
   group and of a title group. *)
C11_KindsAreDisjoint ==
    \A i, j \in 1..Len(groups) :
        UrlKind(groups[i]) /\ TitleKind(groups[j]) =>
            Range(groups[i].bookmarks) \cap Range(groups[j].bookmarks) = {}

(* a URL group and a title group are returned, and a member of the URL group
   has a title similar to the title group's first member *)
C11_Witness ==
    \E i, j \in 1..Len(groups) :
        /\ UrlKind(groups[i])
        /\ TitleKind(groups[j])
        /\ \E b \in Range(groups[i].bookmarks) :
               Similar(db, groups[j].bookmarks[1], b)

(* the URL groups of the last result that hold all the bookmarks of S *)
UrlGroupsWith(S) ==
    {i \in 1..Len(groups) :
        UrlKind(groups[i]) /\ S \subseteq Range(groups[i].bookmarks)}

(* C12: two visible bookmarks of the owner whose URLs normalize to the same
   value are together in exactly one URL group of the result. *)
C12_OneGroupPerUrl ==
    \A a, b \in Candidates(db, user_id) :
        a # b /\ normalize_url(db[a].url) = normalize_url(db[b].url)
            => Cardinality(UrlGroupsWith({a, b})) = 1

(* c is a copy that duplicate_bookmark made of b *)
CopiedFrom(c, b) ==
    /\ db[c].activities # <<>>
    /\ db[c].activities[1].activity_type = "created"
    /\ db[c].activities[1].duplicated_from = b

(* C13: a copy made by duplicate_bookmark and its original, when both are
   visible bookmarks of the owner, are together in a URL group of the
   result. *)
C13_CopyGroupedWithOriginal ==
    \A b, c \in Candidates(db, user_id) :
        CopiedFrom(c, b) => UrlGroupsWith({b, c}) # {}

(* the pairs a list of title groups reports: a group's first member with
   each of its other members *)
PairsOf(title_groups) ==
    UNION {{<<title_groups[i].bookmarks[1], title_groups[i].bookmarks[k]>> :
               k \in 2..Len(title_groups[i].bookmarks)} :
           i \in 1..Len(title_groups)}

(* the pairs of the owner's titled bookmarks that score at least 0.8 *)
ExhaustivePairs(store, owner) ==
    {pair \in Candidates(store, owner) \X Candidates(store, owner) :
        /\ pair[1] < pair[2]
        /\ store[pair[1]].title # <<>>
        /\ store[pair[2]].title # <<>>
        /\ Similar(store, pair[1], pair[2])}

(* C14: the trigram-indexed strategy reports exactly the pairs of titled
   bookmarks whose similarity is at least 0.8. *)
C14_SamePairsAsExhaustive ==
    user_id # "" => PairsOf(groups) = ExhaustivePairs(db, user_id)

---------------------------------------------------------------------------
(* Properties of merge_bookmarks: fields and flags *)

EmptyOf(f) == IF f = "title" THEN <<>> ELSE ""

TextFields == {"title", "description", "favicon_url", "screenshot_url", "notes"}

(* the positions in the iteration order of the duplicates that had field f *)
FilledAt(f) ==
    {i \in 1..Len(duplicates) : pre[duplicates[i]][f] # EmptyOf(f)}

(* C23: after a merge, each of title, description, favicon_url,
   screenshot_url and notes of the primary is the primary's former value if
   that was non-empty, else the first non-empty value among the duplicates in
   iteration order, else empty. *)
C23_FirstValueAdopted ==
    Returned =>
        \A f \in TextFields :
            db[primary_id][f] =
                IF pre[primary_id][f] # EmptyOf(f) THEN pre[primary_id][f]
                ELSE IF FilledAt(f) = {} THEN EmptyOf(f)
                ELSE pre[duplicates[Min(FilledAt(f))]][f]

(* an empty description was taken from the first of two duplicates that had
   one, and a non-empty notes field of the primary was kept although a
   duplicate had another *)
C23_Witness ==
    /\ Returned
    /\ Len(duplicates) = 2
    /\ pre[primary_id].description = ""
    /\ pre[duplicates[1]].description # ""
    /\ pre[duplicates[2]].description # ""
    /\ db[primary_id].description = pre[duplicates[1]].description
    /\ pre[primary_id].notes # ""
    /\ pre[duplicates[1]].notes = ""
    /\ pre[duplicates[2]].notes # ""
    /\ db[primary_id].notes = pre[primary_id].notes

(* C24: after a merge, is_favorite and is_read of the primary are true
   exactly when the flag was true on the primary or on a merged duplicate
   before it. *)
C24_FlagsAreDisjunction ==
    Returned =>
        \A f \in {"is_favorite", "is_read"} :
            db[primary_id][f] =
                (pre[primary_id][f] \/ \E d \in Merged : pre[d][f])

(* the primary became a favorite through the second of two duplicates and
   stayed unread *)
C24_Witness ==
    /\ Returned
    /\ Len(duplicates) = 2
    /\ ~pre[primary_id].is_favorite
    /\ ~pre[duplicates[1]].is_favorite
    /\ pre[duplicates[2]].is_favorite
    /\ db[primary_id].is_favorite
    /\ ~db[primary_id].is_read

(* the title groups of the pairwise strategy for one enumeration of the
   owner's visible bookmarks *)
PairwiseGroups(bookmarks) == Pairwise(<<>>, {}, Titled(db, bookmarks), db)

(* the position of bookmark b in the sequence s *)
PositionIn(s, b) == CHOOSE k \in 1..Len(s) : s[k] = b

(* every bookmark is in at most one group, once *)
InOneGroup(title_groups) ==
    \A i, j \in 1..Len(title_groups) :
        \A k \in 1..Len(title_groups[i].bookmarks),
           l \in 1..Len(title_groups[j].bookmarks) :
            title_groups[i].bookmarks[k] = title_groups[j].bookmarks[l]
                => i = j /\ k = l

(* a group's first member is its earliest one in the enumeration, and every
   member's title is similar to the first member's *)
SimilarToFirst(title_groups, bookmarks) ==
    \A i \in 1..Len(title_groups) :
        \A k \in 1..Len(title_groups[i].bookmarks) :
            /\ PositionIn(bookmarks, title_groups[i].bookmarks[1])
                   <= PositionIn(bookmarks, title_groups[i].bookmarks[k])
            /\ Similar(db, title_groups[i].bookmarks[1],
                       title_groups[i].bookmarks[k])

(* the owner's visible bookmarks are two, with different normalized URLs and
   similar titles *)
TwoAlike(owner) ==
    /\ Cardinality(Candidates(db, owner)) = 2
    /\ \A a, b \in Candidates(db, owner) :
           a # b => /\ normalize_url(db[a].url) # normalize_url(db[b].url)
                    /\ Similar(db, a, b)

TitleGroupsOf(found) == SelectSeq(found, TitleKind)

(* C26: with at most TitleScanLimit titled bookmarks, every bookmark is in at
   most one title group and every member of a title group is similar to the
   group's first member, the earliest of the group in the enumeration; and
   when the owner's visible bookmarks are two with different normalized URLs
   and similar titles, the detection returns exactly one title group. *)
C26_PairwiseGroups ==
    /\ \A owner \in Users :
           \A bookmarks \in QuerysetOrders(db, Candidates(db, owner)) :
               Len(Titled(db, bookmarks)) <= TitleScanLimit =>
                   /\ InOneGroup(PairwiseGroups(bookmarks))
                   /\ SimilarToFirst(PairwiseGroups(bookmarks), bookmarks)
    /\ (user_id # "" /\ TwoAlike(user_id)) =>
           Len(TitleGroupsOf(groups)) = 1

---------------------------------------------------------------------------
(* Properties of the bulk action jobs *)

(* the stored bookmarks of other users than the job's *)
Foreign(store) == {b \in DOMAIN store : store[b].user # job.user}

(* C28: no step of a job's processing changes or deletes a bookmark whose
   owner is not the job's user. *)
C28_OnlyOwnBookmarks ==
    [][\A b \in Foreign(db) : b \in DOMAIN db' /\ db'[b] = db[b]]_vars

(* C29: a cancelled job stays cancelled, and start_job sets 'processing'
   only on a job that is stored as pending. *)
C29_CancelledIsFinal ==
    [][/\ job.status = "cancelled" => job'.status = "cancelled"
       /\ (worker.at # "processing" /\ worker'.at = "processing")
              => job.status = "pending"]_vars

---------------------------------------------------------------------------
(* Properties of apply_redirect *)

(* C30: a call of apply_redirect that returns None leaves the bookmark rows
   (URLs and activity logs) and the LinkHealth rows as they were; a call that
   returns the bookmark leaves its URL equal to the former final_url, its
   health status 'ok' and one more activity entry, an 'updated' one. *)
C30_AllOrNothing ==
    [][\A b \in Ids, u \in Users :
           ApplyRedirect(b, u) =>
               IF returned'[1] = NoBookmark
               THEN db' = db /\ health' = health
               ELSE /\ db'[b].url = health[b].final_url
                    /\ health'[b].status = "ok"
                    /\ db'[b].activities =
                           Append(db[b].activities,
                                  [activity_type |-> "updated", user |-> u])]_vars

(* the call returned None after creating the activity entry raised: the
   bookmark's URL and health row had been written and were rolled back *)
C30_Witness ==
    /\ returned = <<NoBookmark>>
    /\ args[3] = "activity"
    /\ args[1] \in DOMAIN health
    /\ health[args[1]].status = "redirected"
    /\ db[args[1]].url # health[args[1]].final_url

---------------------------------------------------------------------------
(* Properties of the notes *)

ActiveNotes(notes) == {k \in 1..Len(notes) : notes[k].is_active}

HadActiveNote(b) == ActiveNotes(pre[b].bookmark_notes) # {}

(* C25: whatever note saves and merges have run, every stored bookmark has at
   most one active note (all notes of a bookmark are its owner's); and after
   a merge in which the primary or a merged duplicate had an active note the
   primary has exactly one. *)
C25_OneActiveNote ==
    /\ \A b \in DOMAIN db :
           Cardinality(ActiveNotes(db[b].bookmark_notes)) <= 1
    /\ (Returned /\ \E b \in {primary_id} \cup Merged : HadActiveNote(b))
           => Cardinality(ActiveNotes(db[primary_id].bookmark_notes)) = 1

(* a duplicate's newer note replaced the primary's active note, which is
   kept as an inactive one *)
C25_Witness ==
    /\ Returned
    /\ HadActiveNote(primary_id)
    /\ \E d \in Merged : HadActiveNote(d)
    /\ Cardinality(ActiveNotes(db[primary_id].bookmark_notes)) = 1
    /\ Len(db[primary_id].bookmark_notes) = 2
    /\ Len(pre[primary_id].bookmark_notes) = 1

(* the active notes the primary and the merged duplicates had before the
   call, as pairs of bookmark and position *)
NotesBefore ==
    {bk \in ({primary_id} \cup Merged) \X (1..(MaxTime + MaxTime)) :
        bk[2] \in ActiveNotes(pre[bk[1]].bookmark_notes)}

NoteBefore(bk) == pre[bk[1]].bookmark_notes[bk[2]]

(* C27: after a merge returned, the content of the primary's active note is
   the content of a most recently updated one among the active notes that
   the primary and the merged duplicates had before the call. *)
C27_NewestNoteWins ==
    (Returned /\ NotesBefore # {}) =>
        \E bk \in NotesBefore :
            /\ \A other \in NotesBefore :
                   NoteBefore(bk).updated_at >= NoteBefore(other).updated_at
            /\ \E k \in ActiveNotes(db[primary_id].bookmark_notes) :
                   db[primary_id].bookmark_notes[k].content = NoteBefore(bk).content

---------------------------------------------------------------------------
(* Properties of normalize_url *)

(* C15: normalize_url is idempotent: normalizing what it returned returns
   the same string again. *)
C15_Idempotent ==
    returned # <<>> => normalize_url(returned[1]) = returned[1]

(* str.upper() *)
Upper(c) ==
    IF \E i \in 1..Len(LowerCase) : LowerCase[i] = c
    THEN UpperCase[CHOOSE i \in 1..Len(LowerCase) : LowerCase[i] = c]
    ELSE c

UpperStr(s) == [i \in 1..Len(s) |-> Upper(s[i])]

WithTracking(query) ==
    IF query = <<>> THEN <<"?">> \o TrackingQuery
    ELSE query \o <<"&">> \o TrackingQuery

(* the parts with a slash appended to the path, when the path is not the root
   and has no trailing slash yet *)
WithSlash(parts) ==
    IF parts.path # <<>> /\ parts.path[Len(parts.path)] # "/"
    THEN {[parts EXCEPT !.path = @ \o <<"/">>]}
    ELSE {}

WithWww(parts) ==
    IF StartsWith(LowerStr(parts.host), WwwPrefix)
    THEN {}
    ELSE {[parts EXCEPT !.host = WwwPrefix \o @]}

(* the URLs that differ from the URL of these parts in the case of the scheme
   and host, in a leading 'www.', in a single trailing slash on a non-root
   path, or in a tracking parameter *)
Variants(parts) ==
    {[parts EXCEPT !.scheme = UpperStr(@), !.host = UpperStr(@)],
     [parts EXCEPT !.query = WithTracking(@)]}
    \cup WithSlash(parts) \cup WithWww(parts)

(* C16: URLs that can be parsed and differ only in the case of scheme and
   host, a leading 'www.', a single trailing slash on a non-root path, or
   tracking parameters have the same normalized URL. *)
C16_VariantsNormalizeAlike ==
    (returned # <<>> /\ urlparse(WithScheme(args[1])).ok) =>
        \A parts \in UrlParts :
            UrlFrom(parts) = args[1] =>
                \A other \in Variants(parts) :
                    normalize_url(UrlFrom(other)) = returned[1]

(* C17: when the URL cannot be parsed, normalize_url returns exactly the
   string it was given, also when that string had no scheme. *)
C17_UnparsedReturnedUnchanged ==
    (returned # <<>> /\ ~urlparse(WithScheme(args[1])).ok) =>
        returned[1] = args[1]

---------------------------------------------------------------------------
(* Properties of calculate_text_similarity *)

IsOne(similarity) == similarity.num = similarity.den

IsZero(similarity) == similarity.num = 0

Symmetric ==
    calculate_text_similarity(args[2], args[1]) = returned[1]

EmptyIsZero ==
    (args[1] = <<>> \/ args[2] = <<>>) => IsZero(returned[1])

(* C18 as stated: similarity(s, s) is 1.0 for every s of length >= 3, the
   similarity is symmetric, and similarity("", x) is 0. *)
C18_ReflexiveByLength ==
    returned # <<>> =>
        /\ (args[1] = args[2] /\ Len(args[1]) >= 3) => IsOne(returned[1])
        /\ Symmetric
        /\ EmptyIsZero

(* C18 as amended: similarity(s, s) is 1.0 for every s that has at least 3
   characters once its blanks are squeezed and its ends trimmed; the
   similarity is symmetric, and similarity("", x) is 0. *)
C18_ReflexiveBySqueezedLength ==
    returned # <<>> =>
        /\ (args[1] = args[2] /\ Len(SqueezeBlanks(args[1])) >= 3)
               => IsOne(returned[1])
        /\ Symmetric
        /\ EmptyIsZero

(* a text with a run of blanks was compared with itself and scored 1.0 *)
C18_Witness ==
    /\ returned # <<>>
    /\ args[1] = args[2]
    /\ Len(SqueezeBlanks(args[1])) >= 3
    /\ SqueezeBlanks(args[1]) # args[1]
    /\ IsOne(returned[1])

---------------------------------------------------------------------------
(* Properties of LinkHealthChecker *)

Failing(response) == response.failed \/ response.status_code >= 400

(* C19: check_url classifies the probe: below 400 with the requested URL as
   final URL is 'ok'; below 400 with another final URL is 'redirected' with
   that final_url; 400 and above or a network failure is 'broken' without
   archive_url when no snapshot exists and 'archived' with archive_url when
   one exists. *)
C19_ClassifiedAsTable ==
    (Len(args) = 3 /\ returned # <<>>) =>
        /\ returned[1].raised = ""
        /\ (~Failing(args[2]) /\ args[2].url = args[1])
               => returned[1].status = "ok"
        /\ (~Failing(args[2]) /\ args[2].url # args[1])
               => /\ returned[1].status = "redirected"
                  /\ returned[1].final_url = args[2].url
        /\ (Failing(args[2]) /\ args[3] = <<>>)
               => /\ returned[1].status = "broken"
                  /\ returned[1].archive_url = <<>>
        /\ (Failing(args[2]) /\ args[3] # <<>>)
               => /\ returned[1].status = "archived"
                  /\ returned[1].archive_url = args[3]

(* C20: in the list get_bookmarks_for_checking returns, the bookmarks without
   a LinkHealth row come before those with one; one with a row is listed only
   if its next_check has elapsed; among those, 'broken' rows come before rows
   of every other status, and rows of one status come oldest last_checked
   first. *)
C20_PriorityOrder ==
    (Len(args) = 2 /\ returned # <<>>) =>
        \A i, j \in 1..Len(returned[1]) :
            /\ returned[1][i] \in DOMAIN health
                   => health[returned[1][i]].next_check <= now
            /\ (i < j /\ returned[1][i] \in DOMAIN health)
                   => /\ returned[1][j] \in DOMAIN health
                      /\ health[returned[1][j]].status = "broken"
                             => health[returned[1][i]].status = "broken"
                      /\ health[returned[1][i]].status
                             = health[returned[1][j]].status
                             => health[returned[1][i]].last_checked
                                    <= health[returned[1][j]].last_checked

(* check_count of the bookmark's row, 0 when it has none *)
CountOf(rows, b) == IF b \in DOMAIN rows THEN rows[b].check_count ELSE 0

(* C21: every check of a bookmark by process_bookmark leaves a stored
   LinkHealth row of that bookmark whose check_count is one higher than
   before (1 for a new row), whose last_checked is the time of the check and
   whose next_check was recomputed to a later time. *)
C21_CheckIsRecorded ==
    [][\A b \in Ids :
           ProcessBookmark(b) =>
               /\ b \in DOMAIN health'
               /\ health'[b].check_count = CountOf(health, b) + 1
               /\ health'[b].last_checked = now
               /\ health'[b].next_check > now]_vars

FailingPage(page) ==
    page.failed \/ page.status_code >= 400 \/ page.content # "html"

(* C22: check_url and fetch_page_metadata / enrich_url do not raise to their
   caller when the remote site fails (network error, HTTP error status,
   disallowed content), and a failed probe is classified 'broken' (or
   'archived' when a snapshot exists). *)
C22_FailuresDoNotRaise ==
    /\ (Len(args) = 3 /\ returned # <<>> /\ Failing(args[2]))
           => /\ returned[1].raised = ""
              /\ returned[1].status \in {"broken", "archived"}
    /\ (Len(args) = 4 /\ returned # <<>> /\ args[2] /\ FailingPage(args[3]))
           => returned[1].raised = ""

====
